---- MODULE Spec2Model ----
(***************************************************************************)
(* A model of the sealing / unsealing / attestation pipeline of            *)
(* rust-fil-proofs.  The module is organised by component; every component *)
(* has its own variables, its own initial predicate and its own            *)
(* specification, and leaves the variables of the other components alone.  *)
(*                                                                         *)
(*   SpecUnseal   add_piece, seal, unseal_range / unseal_range_mapped /    *)
(*                get_unsealed_range        (filecoin-proofs/src/api)      *)
(*   SpecStore    verify_store, verify_level_cache_store (same file)       *)
(*   SpecSeal     seal_pre_commit_phase1 / phase2, generate_tree_c,        *)
(*                generate_tree_r_last      (filecoin-proofs/src/api/seal) *)
(*   SpecPoSt     generate_window_post, verify_window_post                 *)
(*   SpecAggregate  aggregate_seal_commit_proofs and its verification      *)
(*   SpecUpdate   encode_into, decode_from, decode_from_range,             *)
(*                remove_encoded_data     (filecoin-proofs/src/api/update) *)
(*   SpecValidate validate_cache_for_precommit_phase2,                     *)
(*                validate_cache_for_commit (filecoin-proofs/src/api)      *)
(*   SpecData     Data: constructors, ensure_data, ensure_data_of_len,     *)
(*                drop_data, as_ref, as_mut (storage-proofs-core/src/data) *)
(*   SpecPiece    the piece size check of add_piece, write_and_preprocess  *)
(*                and generate_piece_commitment (filecoin-proofs/src/api)  *)
(*   SpecPartition  generate_single_window_post_with_vanilla per chunk,    *)
(*                merge_window_post_partition_proofs, verify_window_post   *)
(*   SpecWinning  generate_winning_post_sector_challenge                   *)
(*   SpecCommit   generate_proof of tests/api.rs: generate_synth_proofs,   *)
(*                clear_cache, validate_cache_for_commit,                  *)
(*                seal_commit_phase1, clear_synthetic_proofs               *)
(*   SpecChallenges  get_porep_interactive_minimum_challenges,             *)
(*                get_porep_non_interactive_minimum_challenges,            *)
(*                get_porep_non_interactive_partitions, POREP_PARTITIONS   *)
(*                                          (filecoin-proofs/src/constants) *)
(*   SpecOutput   get_unsealed_range and the file at output_path           *)
(*   SpecThreads  threads_mode, spawn_thread and thread_fun of             *)
(*                fil-proofs-tooling/src/bin/gpu-cpu-test                  *)
(***************************************************************************)
EXTENDS Integers, Sequences, FiniteSets, TLC

VARIABLES
    \* ---- unseal component ------------------------------------------------
    phase,          \* "staging" while pieces are written, "sealed" afterwards
    staged,         \* bytes of the staged sector file (bit-padded), target of add_piece
    pieceLengths,   \* unpadded sizes of the pieces already written (the caller's piece_lengths)
    pieceLog,       \* per written piece: its unpadded start index and the bytes of its source
    original,       \* the unpadded bytes of the sector: alignment zeros and piece sources
    addResult,      \* outcome of the last add_piece
    sealed,         \* bytes of the sealed sector file
    sealedCommD,    \* comm_d the sector was sealed with
    sealedTicket,   \* ticket the sector was sealed with
    call,           \* the unseal request being served, or NoCall
    sink,           \* bytes written to unsealed_output by the request
    result,         \* value returned by the request, or NoResult
    sealedRead,     \* whether the request read / mapped the sealed sector
    \* ---- cache store component -------------------------------------------
    storeConfig,    \* the StoreConfig handed to the verification: path, id, size
    files,          \* the file system: path of each existing file |-> nodes it holds
    verifyCall,     \* the verification being served, or NoCall
    verifyResult,   \* its outcome, or NoResult
    \* ---- seal pipeline component ----------------------------------------
    sealData,       \* nodes of the staged sector being sealed
    sealShape,      \* number of base trees the sector's trees are split into
    layerFiles,     \* cache dir: the label-layer store of each layer
    p1Output,       \* output of the last seal_pre_commit_phase1
    p1Runs,         \* completed runs of seal_pre_commit_phase1
    refRun,         \* ticket and layer stores of the first, uninterrupted run
    layersBefore,   \* the layer stores as the last run found them
    replicaFile,    \* the sealed replica written by seal_pre_commit_phase2
    cacheTrees,     \* cache dir: tree_c and tree_r_last stores written by phase 2
    outTreeC,       \* output dir of the standalone generate_tree_c
    outTreeRLast,   \* output dir of the standalone generate_tree_r_last
    \* ---- window PoSt component -------------------------------------------
    postSectors,    \* number of sectors of the batch (their ids are 1..postSectors)
    replicas,       \* per sector: the replica file of its PrivateReplicaInfo
    postCall,       \* the generate_window_post request being served, or NoCall
    postResult,     \* its outcome, or NoResult
    postVerified,   \* outcome of verify_window_post on the returned proof, or NoResult
    \* ---- seal proof aggregation component --------------------------------
    commitOutput,   \* the seal commit proof being aggregated, with its comm_r and seed
    aggregateCall,  \* the aggregate_seal_commit_proofs call made, or NoCall
    aggregateProof, \* the aggregate it returned, or NoResult
    aggregateVerified, \* the verify_aggregate_seal_commit_proofs call and its result
    \* ---- sector update component ------------------------------------------
    sectorKey,      \* nodes of the sealed sector-key replica (and its comm_r)
    newStaged,      \* nodes of the new staged data
    newReplica,     \* the new replica and commitments returned by encode_into
    decodedFile,    \* output file of decode_from
    decodedParts,   \* output file of the decode_from_range calls made so far
    removedFile,    \* output file of remove_encoded_data
    \* ---- cache validation component ----------------------------------------
    sealedReplica,  \* the replica file handed to the validation, present or not, and its length
    auxFiles,       \* which of p_aux and t_aux exist in the cache dir
    validateCall,   \* the validation being served, or NoCall
    validateResult, \* its outcome, or NoResult
    \* ---- sector data component ---------------------------------------------
    sectorData,     \* the Data value - raw (content or none), path (or none), len
    disk,           \* the file at the backing path - whether it exists, and its bytes
    dataCall,       \* the operation on the Data being served with the Data as it found it, or NoCall
    dataResult,     \* what the operation returned, or NoResult
    ioLog,          \* file operations performed by the operation being served
    materializedLen, \* length the content had when it was last present (0 - never present)
    dropped,        \* the Data as the last drop_data that released its content found it, or NoCall
    \* ---- piece size component ----------------------------------------------
    pieceCall,      \* the piece function being served with its arguments, or NoCall
    pieceResult,    \* what it returned, or NoResult
    sourceRead,     \* bytes it read from the source
    targetWritten,  \* bytes it wrote to the target
    \* ---- window PoSt partition component -----------------------------------
    totalSectors,   \* number of sectors proven (their ids are 1..totalSectors)
    sectorCount,    \* config.sector_count - sectors per partition
    partitionRandomness,\* randomness of the proving round
    partitionProofs,\* the partition proofs generated so far, in partition order
    finalProof,     \* the merged proof, or NoResult
    finalVerified,  \* outcome of verify_window_post on the merged proof, or NoResult
    \* ---- winning PoSt challenge component ----------------------------------
    winningCall,    \* the generate_winning_post_sector_challenge call being served, or NoCall
    winningResult,  \* what it returned, or NoResult
    lastChallenge,  \* the call served before it and its result, or NoCall
    \* ---- seal commit driver component --------------------------------------
    commitFeature,  \* whether config enables ApiFeature::SyntheticPoRep
    commitCache,    \* the artifacts present in the cache dir
    commitPc,       \* position of generate_proof - the call it makes next
    commitTrace,    \* the calls generate_proof made - each with the cache it found and its outcome
    \* ---- PoRep challenge parameters component ------------------------------
    porepSectorSize,\* the sector size the PoRep parameters are asked for, in KiB
    porepParams,    \* the parameters obtained so far - name of the getter |-> what it returned
    \* ---- unsealed output file component ------------------------------------
    outputSector,   \* the sealed sector at sealed_path - its bytes, comm_d and ticket
    outputFile,     \* the file at output_path - whether it exists, and its bytes
    outputCall,     \* the get_unsealed_range call being served with the output file as it found it, or NoCall
    outputResult,   \* what it returned, or NoResult
    \* ---- gpu-cpu-test threads mode component -------------------------------
    workers,        \* per worker thread - its position in thread_fun, its iteration counter and the proofs it ran after the termination message was sent
    channels,       \* per worker - the messages queued in its channel and whether its Sender and its Receiver are still alive
    mainPc,         \* position of threads_mode in the main thread
    mainNext,       \* index of the sender or thread handle the main thread handles next
    runInfos        \* the RunInfo values the main thread got from join, in thread order

unsealVars == <<phase, staged, pieceLengths, pieceLog, original, addResult,
                sealed, sealedCommD, sealedTicket, call, sink, result, sealedRead>>

storeVars == <<storeConfig, files, verifyCall, verifyResult>>

sealVars == <<sealData, sealShape, layerFiles, p1Output, p1Runs, refRun, layersBefore,
              replicaFile, cacheTrees, outTreeC, outTreeRLast>>

postVars == <<postSectors, replicas, postCall, postResult, postVerified>>

aggregateVars == <<commitOutput, aggregateCall, aggregateProof, aggregateVerified>>

updateVars == <<sectorKey, newStaged, newReplica, decodedFile, decodedParts, removedFile>>

validateVars == <<sealedReplica, auxFiles, validateCall, validateResult>>

dataVars == <<sectorData, disk, dataCall, dataResult, ioLog, materializedLen, dropped>>

pieceVars == <<pieceCall, pieceResult, sourceRead, targetWritten>>

partitionVars == <<totalSectors, sectorCount, partitionRandomness, partitionProofs, finalProof, finalVerified>>

winningVars == <<winningCall, winningResult, lastChallenge>>

commitVars == <<commitFeature, commitCache, commitPc, commitTrace>>

challengesVars == <<porepSectorSize, porepParams>>

outputVars == <<outputSector, outputFile, outputCall, outputResult>>

threadsVars == <<workers, channels, mainPc, mainNext, runInfos>>

vars == <<unsealVars, storeVars, sealVars, postVars, aggregateVars, updateVars, validateVars, dataVars, pieceVars, partitionVars, winningVars, commitVars, challengesVars, outputVars, threadsVars>>

\* What the actions of one component leave alone.
notUnsealVars == <<storeVars, sealVars, postVars, aggregateVars, updateVars, validateVars, dataVars, pieceVars, partitionVars, winningVars, commitVars, challengesVars, outputVars, threadsVars>>
notStoreVars == <<unsealVars, sealVars, postVars, aggregateVars, updateVars, validateVars, dataVars, pieceVars, partitionVars, winningVars, commitVars, challengesVars, outputVars, threadsVars>>
notSealVars == <<unsealVars, storeVars, postVars, aggregateVars, updateVars, validateVars, dataVars, pieceVars, partitionVars, winningVars, commitVars, challengesVars, outputVars, threadsVars>>
notPostVars == <<unsealVars, storeVars, sealVars, aggregateVars, updateVars, validateVars, dataVars, pieceVars, partitionVars, winningVars, commitVars, challengesVars, outputVars, threadsVars>>
notAggregateVars == <<unsealVars, storeVars, sealVars, postVars, updateVars, validateVars, dataVars, pieceVars, partitionVars, winningVars, commitVars, challengesVars, outputVars, threadsVars>>
notUpdateVars == <<unsealVars, storeVars, sealVars, postVars, aggregateVars, validateVars, dataVars, pieceVars, partitionVars, winningVars, commitVars, challengesVars, outputVars, threadsVars>>
\* The validation reads and the test harness writes the files of the store component.
notValidateVars == <<unsealVars, storeConfig, verifyCall, verifyResult, sealVars, postVars,
                     aggregateVars, updateVars, dataVars, pieceVars, partitionVars, winningVars, commitVars, challengesVars, outputVars, threadsVars>>
notDataVars == <<unsealVars, storeVars, sealVars, postVars, aggregateVars, updateVars, validateVars, pieceVars, partitionVars, winningVars, commitVars, challengesVars, outputVars, threadsVars>>
notPieceVars == <<unsealVars, storeVars, sealVars, postVars, aggregateVars, updateVars, validateVars, dataVars, partitionVars, winningVars, commitVars, challengesVars, outputVars, threadsVars>>
notPartitionVars == <<unsealVars, storeVars, sealVars, postVars, aggregateVars, updateVars, validateVars, dataVars, pieceVars, winningVars, commitVars, challengesVars, outputVars, threadsVars>>
notWinningVars == <<unsealVars, storeVars, sealVars, postVars, aggregateVars, updateVars, validateVars, dataVars, pieceVars, partitionVars, commitVars, challengesVars, outputVars, threadsVars>>
notCommitVars == <<unsealVars, storeVars, sealVars, postVars, aggregateVars, updateVars, validateVars, dataVars, pieceVars, partitionVars, winningVars, challengesVars, outputVars, threadsVars>>
notChallengesVars == <<unsealVars, storeVars, sealVars, postVars, aggregateVars, updateVars, validateVars, dataVars, pieceVars, partitionVars, winningVars, commitVars, outputVars, threadsVars>>
notOutputVars == <<unsealVars, storeVars, sealVars, postVars, aggregateVars, updateVars, validateVars, dataVars, pieceVars, partitionVars, winningVars, commitVars, challengesVars, threadsVars>>
notThreadsVars == <<unsealVars, storeVars, sealVars, postVars, aggregateVars, updateVars, validateVars, dataVars, pieceVars, partitionVars, winningVars, commitVars, challengesVars, outputVars>>

NoCall == [fn |-> "none"]
NoResult == [kind |-> "none"]

(***************************************************************************)
(* Bounds of the model.                                                    *)
(***************************************************************************)
\* Sector size, in groups of four 32-byte nodes (128 padded bytes, 127 unpadded).
SectorQuads == 2
\* Piece contents and tickets offered by the callers.
Seeds == {1, 2}
Tickets == {1, 2}

(***************************************************************************)
(* Program constants.                                                      *)
(***************************************************************************)
NODE_SIZE == 32
MINIMUM_RESERVED_LEAVES_FOR_PIECE_IN_SECTOR == 4
MINIMUM_PIECE_SIZE == (MINIMUM_RESERVED_LEAVES_FOR_PIECE_IN_SECTOR * NODE_SIZE) - 1
\* The all-zero commitment, the "unset" sentinel.
ZeroCommitment == 0
\* fr32 padding map: 254 data bits in every 256-bit element.
DataBits == 254
ElementBits == 256

SectorPaddedBytes == SectorQuads * (MINIMUM_PIECE_SIZE + 1)
SectorUnpaddedBytes == SectorQuads * MINIMUM_PIECE_SIZE

Zeros(n) == [i \in 1..n |-> 0]

(***************************************************************************)
(* The state of each component before it is used.                          *)
(***************************************************************************)
IdleUnseal ==
    /\ phase = "staging"
    /\ staged = <<>>
    /\ pieceLengths = <<>>
    /\ pieceLog = <<>>
    /\ original = <<>>
    /\ addResult = NoResult
    /\ sealed = <<>>
    /\ sealedCommD = ZeroCommitment
    /\ sealedTicket = 0
    /\ call = NoCall
    /\ sink = <<>>
    /\ result = NoResult
    /\ sealedRead = FALSE

IdleStore ==
    /\ storeConfig = [path |-> "", id |-> "", size |-> 0]
    /\ files = <<>>
    /\ verifyCall = NoCall
    /\ verifyResult = NoResult

NoFile == [present |-> FALSE, nodes |-> <<>>]
NoTrees == [built |-> FALSE]

IdleSeal ==
    /\ sealData = <<>>
    /\ sealShape = 0
    /\ layerFiles = <<>>
    /\ p1Output = NoResult
    /\ p1Runs = 0
    /\ refRun = NoResult
    /\ layersBefore = <<>>
    /\ replicaFile = NoFile
    /\ cacheTrees = NoTrees
    /\ outTreeC = NoTrees
    /\ outTreeRLast = NoTrees

IdlePost ==
    /\ postSectors = 0
    /\ replicas = <<>>
    /\ postCall = NoCall
    /\ postResult = NoResult
    /\ postVerified = NoResult

IdleAggregate ==
    /\ commitOutput = NoResult
    /\ aggregateCall = NoCall
    /\ aggregateProof = NoResult
    /\ aggregateVerified = NoResult

IdleUpdate ==
    /\ sectorKey = NoResult
    /\ newStaged = <<>>
    /\ newReplica = NoResult
    /\ decodedFile = NoResult
    /\ decodedParts = NoResult
    /\ removedFile = NoResult

NoReplica == [present |-> FALSE, len |-> 0]

IdleValidate ==
    /\ sealedReplica = NoReplica
    /\ auxFiles = {}
    /\ validateCall = NoCall
    /\ validateResult = NoResult

NoPath == ""
NoRaw == [kind |-> "none"]
NoDiskFile == [exists |-> FALSE, bytes |-> <<>>]

IdleData ==
    /\ sectorData = [raw |-> NoRaw, path |-> NoPath, len |-> 0]
    /\ disk = NoDiskFile
    /\ dataCall = NoCall
    /\ dataResult = NoResult
    /\ ioLog = <<>>
    /\ materializedLen = 0
    /\ dropped = NoCall

IdlePiece ==
    /\ pieceCall = NoCall
    /\ pieceResult = NoResult
    /\ sourceRead = 0
    /\ targetWritten = 0

IdlePartition ==
    /\ totalSectors = 0
    /\ sectorCount = 0
    /\ partitionRandomness = 0
    /\ partitionProofs = <<>>
    /\ finalProof = NoResult
    /\ finalVerified = NoResult

IdleWinning ==
    /\ winningCall = NoCall
    /\ winningResult = NoResult
    /\ lastChallenge = NoCall

IdleCommit ==
    /\ commitFeature = FALSE
    /\ commitCache = {}
    /\ commitPc = "start"
    /\ commitTrace = <<>>

IdleChallenges ==
    /\ porepSectorSize = 0
    /\ porepParams = <<>>

IdleOutput ==
    /\ outputSector = NoCall
    /\ outputFile = NoDiskFile
    /\ outputCall = NoCall
    /\ outputResult = NoResult

IdleThreads ==
    /\ workers = <<>>
    /\ channels = <<>>
    /\ mainPc = "idle"
    /\ mainNext = 0
    /\ runInfos = <<>>

(***************************************************************************)
(* fr32 bit padding.  A byte sequence is a little-endian bit stream.       *)
(***************************************************************************)
Bit(bytes, p) == (bytes[(p \div 8) + 1] \div (2 ^ (p % 8))) % 2

\* PaddingMap::transform_bit_offset
TransformBitOffset(pos, padding) ==
    LET from_size == IF padding THEN DataBits ELSE ElementBits
        to_size   == IF padding THEN ElementBits ELSE DataBits
    IN ((pos \div from_size) * to_size) + (pos % from_size)

\* PaddingMap::transform_byte_offset: ceil when padding, floor when unpadding
TransformByteOffset(pos, padding) ==
    LET bits == TransformBitOffset(pos * 8, padding)
    IN IF padding THEN (bits + 7) \div 8 ELSE bits \div 8

\* PaddedBytesAmount::from(UnpaddedBytesAmount)
ToPaddedBytes(n) == TransformByteOffset(n, TRUE)
\* UnpaddedBytesAmount::from(PaddedBytesAmount)
ToUnpaddedBytes(n) == TransformByteOffset(n, FALSE)

\* Bit p of the padded stream of `src`: two zero bits close every element.
PaddedBit(src, p) ==
    LET r == p % ElementBits
        q == ((p \div ElementBits) * DataBits) + r
    IN IF r >= DataBits \/ q >= 8 * Len(src) THEN 0 ELSE Bit(src, q)

\* Fr32Reader: the bit-padded stream of a source.
Fr32Pad(src) ==
    [j \in 1..ToPaddedBytes(Len(src)) |->
        LET b(k) == PaddedBit(src, (8 * (j - 1)) + k) * (2 ^ k)
        IN b(0) + b(1) + b(2) + b(3) + b(4) + b(5) + b(6) + b(7)]

\* Bit q of the raw data held in the padded stream `source`.
RawBit(source, q) ==
    LET p == TransformBitOffset(q, TRUE)
    IN IF p >= 8 * Len(source) THEN 0 ELSE Bit(source, p)

\* Number of raw data bytes a padded stream can hold (bytes_needed of the bit count).
RawDataSize(source) == (TransformBitOffset(Len(source) * 8, FALSE) + 7) \div 8

\* write_unpadded(source, target, offset, len): the raw bytes
\* [offset, offset + len) of the padded stream `source`, which starts at an
\* element boundary; an error when `source` does not hold that many.
WriteUnpaddedOk(source, offset, len) ==
    (TransformBitOffset(offset * 8, TRUE) \div 8) + len <= RawDataSize(source)

WriteUnpadded(source, offset, len) ==
    [i \in 1..len |->
        LET b(k) == RawBit(source, (8 * (offset + i - 1)) + k) * (2 ^ k)
        IN b(0) + b(1) + b(2) + b(3) + b(4) + b(5) + b(6) + b(7)]

(***************************************************************************)
(* Piece alignment (filecoin-proofs/src/pieces.rs).                        *)
(***************************************************************************)
RECURSIVE PieceBytesNeeded(_, _)
PieceBytesNeeded(needed, piece_bytes) ==
    IF needed < piece_bytes THEN PieceBytesNeeded(needed * 2, piece_bytes) ELSE needed

GetPieceAlignment(written_bytes, piece_bytes) ==
    LET needed == PieceBytesNeeded(MINIMUM_PIECE_SIZE, piece_bytes)
        encroaching == written_bytes % needed
    IN [left_bytes  |-> IF encroaching > 0 THEN needed - encroaching ELSE 0,
        right_bytes |-> needed - piece_bytes]

RECURSIVE SumPieceBytesWithAlignment(_)
SumPieceBytesWithAlignment(pieces) ==
    IF pieces = <<>> THEN 0
    ELSE LET n == Len(pieces)
             acc == SumPieceBytesWithAlignment(SubSeq(pieces, 1, n - 1))
             al == GetPieceAlignment(acc, pieces[n])
         IN acc + al.left_bytes + al.right_bytes + pieces[n]

(***************************************************************************)
(* add_piece                                                               *)
(***************************************************************************)
RECURSIVE IsPowerOfTwo(_)
IsPowerOfTwo(n) ==
    IF n <= 0 THEN FALSE
    ELSE IF n = 1 THEN TRUE
    ELSE IF n % 2 = 1 THEN FALSE
    ELSE IsPowerOfTwo(n \div 2)

EnsurePieceSizeMinimumOnly(piece_size) == piece_size >= MINIMUM_PIECE_SIZE
\* ensure_piece_size
EnsurePieceSize(piece_size) ==
    /\ piece_size >= MINIMUM_PIECE_SIZE
    /\ IsPowerOfTwo(ToPaddedBytes(piece_size))

\* Content of a piece source: `len` bytes determined by a seed.
SourceBytes(seed, len) == [i \in 1..len |-> ((seed * 101) + (i * 37) + ((i * i) % 11)) % 256]

\* Piece sizes offered to add_piece: the valid ones that fit the sector, and
\* the neighbours of the minimum.
RECURSIVE ValidPieceSizes(_)
ValidPieceSizes(size) ==
    IF size > SectorUnpaddedBytes THEN {} ELSE {size} \cup ValidPieceSizes(2 * size)

PieceSizeInputs ==
    ValidPieceSizes(MINIMUM_PIECE_SIZE) \cup {MINIMUM_PIECE_SIZE - 1, MINIMUM_PIECE_SIZE + 1}

AddPiece(piece_size, seed) ==
    /\ phase = "staging"
    /\ IF ~EnsurePieceSize(piece_size)
       THEN /\ addResult' = [kind |-> "err", error |-> "InvalidPieceSize"]
            /\ UNCHANGED <<staged, pieceLengths, pieceLog, original>>
       ELSE LET source == SourceBytes(seed, piece_size)
                written_bytes == SumPieceBytesWithAlignment(pieceLengths)
                piece_alignment == GetPieceAlignment(written_bytes, piece_size)
                left == Zeros(ToPaddedBytes(piece_alignment.left_bytes))
                copied == Fr32Pad(source)
                n == ToUnpaddedBytes(Len(copied))
                right == Zeros(ToPaddedBytes(piece_alignment.right_bytes))
                written == piece_alignment.left_bytes + piece_alignment.right_bytes + piece_size
            IN /\ Len(staged) + Len(left) + Len(copied) + Len(right) <= SectorPaddedBytes
               /\ IF n = 0 \/ n # piece_size
                  THEN /\ addResult' = [kind |-> "err", error |-> "InvalidBytesAmount"]
                       /\ staged' = staged \o left \o copied
                       /\ UNCHANGED <<pieceLengths, pieceLog, original>>
                  ELSE /\ addResult' = [kind |-> "ok", size |-> n, written |-> written]
                       /\ staged' = staged \o left \o copied \o right
                       /\ pieceLengths' = Append(pieceLengths, piece_size)
                       /\ pieceLog' = Append(pieceLog,
                              [start |-> written_bytes + piece_alignment.left_bytes,
                               bytes |-> source])
                       /\ original' = original \o Zeros(piece_alignment.left_bytes)
                                          \o source \o Zeros(piece_alignment.right_bytes)
    /\ UNCHANGED <<phase, sealed, sealedCommD, sealedTicket, call, sink, result, sealedRead>>
    /\ UNCHANGED notUnsealVars

(***************************************************************************)
(* Sealing: the replica is the staged data encoded with a key derived from *)
(* the replica id.                                                         *)
(***************************************************************************)
ProverId == 1
SectorIdOfSector == 1
PorepId == 1

RECURSIVE SumBytes(_, _, _)
SumBytes(bytes, lo, hi) ==
    IF lo > hi THEN 0
    ELSE IF lo = hi THEN bytes[lo]
    ELSE LET mid == (lo + hi) \div 2
         IN SumBytes(bytes, lo, mid) + SumBytes(bytes, mid + 1, hi)

\* comm_d of the staged data: a digest that is never the all-zero value.
ComputeCommD(data) == 1 + (SumBytes(data, 1, Len(data)) % 2)

\* generate_replica_id(prover_id, sector_id, ticket, comm_d, porep_id)
GenerateReplicaId(prover_id, sector_id, ticket, comm_d, porep_id) ==
    (prover_id + (3 * sector_id) + (5 * ticket) + (7 * comm_d) + (11 * porep_id)) % 64

KeyByte(replica_id, i) == ((replica_id * 29) + (i * 7) + 13) % 256

\* transform_and_replicate_layers: data encoded with the key of the last layer
EncodeSector(data, replica_id) ==
    [i \in 1..Len(data) |-> (data[i] + KeyByte(replica_id, i)) % 256]

\* extract_and_invert_transform_layers: the inverse, in place
DecodeSector(data, replica_id) ==
    [i \in 1..Len(data) |-> (data[i] + 256 - KeyByte(replica_id, i)) % 256]

Seal(ticket) ==
    /\ phase = "staging"
    /\ Len(staged) = SectorPaddedBytes
    /\ addResult.kind # "err"
    /\ LET comm_d == ComputeCommD(staged)
           replica_id == GenerateReplicaId(ProverId, SectorIdOfSector, ticket, comm_d, PorepId)
       IN /\ sealed' = EncodeSector(staged, replica_id)
          /\ sealedCommD' = comm_d
          /\ sealedTicket' = ticket
    /\ phase' = "sealed"
    /\ UNCHANGED <<staged, pieceLengths, pieceLog, original, addResult, call, sink, result, sealedRead>>
    /\ UNCHANGED notUnsealVars

(***************************************************************************)
(* unseal_range, unseal_range_mapped, get_unsealed_range                   *)
(***************************************************************************)
UnsealFns == {"unseal_range", "unseal_range_mapped", "get_unsealed_range"}

\* Unpadded offsets and lengths offered to the unseal functions: aligned and
\* unaligned ones, inside the sector and beyond it.
OffsetInputs ==
    {(q * MINIMUM_PIECE_SIZE) + d : q \in 0..(SectorQuads - 1), d \in {0, 1, 32}}
        \cup {SectorUnpaddedBytes}
NumBytesInputs == {1, 32, MINIMUM_PIECE_SIZE, 2 * MINIMUM_PIECE_SIZE, SectorUnpaddedBytes}

CommDAcceptedUnchecked(comm_d) == TRUE
\* ensure!(comm_d != [0; 32])
CommDAccepted(comm_d) == comm_d # ZeroCommitment

\* the padded slice [start, end) taken from the decoded sector
SliceStart(offset_padded) == offset_padded
SliceEndWithoutStart(start, num_bytes_padded) == num_bytes_padded
SliceEnd(start, num_bytes_padded) == start + num_bytes_padded

\* unseal_range_inner: the returned value and the bytes written to the sink
UnsealRangeInner(data, replica_id, offset, num_bytes) ==
    LET offset_padded == ToPaddedBytes(offset)
        num_bytes_padded == ToPaddedBytes(num_bytes)
        decoded == DecodeSector(data, replica_id)
        start == SliceStart(offset_padded)
        end == SliceEnd(start, num_bytes_padded)
    IN IF end > Len(decoded) \/ start > end
       THEN [result |-> [kind |-> "panic"], written |-> <<>>]
       ELSE LET unsealed == SubSeq(decoded, start + 1, end)
            IN IF ~WriteUnpaddedOk(unsealed, 0, num_bytes)
               THEN [result |-> [kind |-> "err", error |-> "write_unpadded failed"],
                     written |-> <<>>]
               ELSE LET written == WriteUnpadded(unsealed, 0, num_bytes)
                    IN [result |-> [kind |-> "ok", amount |-> Len(written)],
                        written |-> written]

\* MmapOptions::map_copy(&mapped_file): a private copy-on-write mapping of
\* the sealed file - what the file holds once `buffer` is in the mapping
MapShared(file_bytes, buffer) == buffer
MapCopy(file_bytes, buffer) == file_bytes

\* unseal_range (a reader over the sealed sector), unseal_range_mapped (the
\* sealed file, mapped copy-on-write) and get_unsealed_range (the mapped
\* variant writing to a file): from the comm_d check on they share one body.
\* `can_open` says whether the file at sealed_path can be opened.
UnsealRange(fn, comm_d, ticket, offset, num_bytes, can_open) ==
    /\ phase = "sealed"
    /\ call = NoCall
    /\ call' = [fn |-> fn, comm_d |-> comm_d, ticket |-> ticket,
                offset |-> offset, num_bytes |-> num_bytes, can_open |-> can_open]
    /\ IF ~CommDAccepted(comm_d)
       THEN /\ result' = [kind |-> "err", error |-> "Invalid all zero commitment (comm_d)"]
            /\ UNCHANGED <<sink, sealedRead, sealed>>
       ELSE IF fn # "unseal_range" /\ ~can_open
       THEN /\ result' = [kind |-> "err", error |-> "open"]
            /\ UNCHANGED <<sink, sealedRead, sealed>>
       ELSE LET replica_id == GenerateReplicaId(ProverId, SectorIdOfSector, ticket,
                                                comm_d, PorepId)
                out == UnsealRangeInner(sealed, replica_id, offset, num_bytes)
            IN /\ sealedRead' = TRUE
               /\ result' = out.result
               /\ sink' = out.written
               /\ sealed' = IF fn = "unseal_range" THEN sealed
                             ELSE MapCopy(sealed, DecodeSector(sealed, replica_id))
    /\ UNCHANGED <<phase, staged, pieceLengths, pieceLog, original, addResult,
                   sealedCommD, sealedTicket>>
    /\ UNCHANGED notUnsealVars

\* The caller takes the returned value and the sink; the next request gets
\* a fresh sink.
ReturnUnseal ==
    /\ call # NoCall
    /\ call' = NoCall
    /\ result' = NoResult
    /\ sink' = <<>>
    /\ sealedRead' = FALSE
    /\ UNCHANGED <<phase, staged, pieceLengths, pieceLog, original, addResult,
                   sealed, sealedCommD, sealedTicket>>
    /\ UNCHANGED notUnsealVars

InitUnseal ==
    /\ IdleUnseal
    /\ IdleStore
    /\ IdleSeal
    /\ IdlePost
    /\ IdleAggregate
    /\ IdleUpdate
    /\ IdleValidate
    /\ IdleData
    /\ IdlePiece
    /\ IdlePartition
    /\ IdleWinning
    /\ IdleCommit
    /\ IdleChallenges
    /\ IdleOutput
    /\ IdleThreads

AddPieceCall == \E piece_size \in PieceSizeInputs, seed \in Seeds : AddPiece(piece_size, seed)

SealCall == \E ticket \in Tickets : Seal(ticket)

UnsealRangeCall ==
    \E fn \in UnsealFns, comm_d \in {ZeroCommitment, sealedCommD},
       offset \in OffsetInputs, num_bytes \in NumBytesInputs, can_open \in BOOLEAN :
        /\ (fn = "unseal_range" => can_open)
        /\ UnsealRange(fn, comm_d, sealedTicket, offset, num_bytes, can_open)

NextUnseal ==
    \/ AddPieceCall
    \/ SealCall
    \/ UnsealRangeCall
    \/ ReturnUnseal

SpecUnseal == InitUnseal /\ [][NextUnseal]_vars

\* The request was made with the commitment and ticket the sector was sealed
\* with, and the sealed sector could be opened.
CallOfSealedSector ==
    /\ call # NoCall
    /\ call.comm_d = sealedCommD
    /\ call.ticket = sealedTicket
    /\ call.can_open

\* C1: for every piece written with add_piece (at least 127 bytes, padded size
\* a power of two) and then sealed, unseal_range over the full unpadded byte
\* range of the piece succeeds and writes to the sink exactly the bytes of
\* the piece's source.
C1_PieceRoundTrip ==
    \A k \in 1..Len(pieceLog) :
        ( /\ CallOfSealedSector
          /\ call.fn = "unseal_range"
          /\ call.offset = pieceLog[k].start
          /\ call.num_bytes = Len(pieceLog[k].bytes) )
        => /\ result.kind = "ok"
           /\ sink = pieceLog[k].bytes

\* A second piece of the sector, not at offset 0, unsealed over its full range.
C1_Witness ==
    /\ Len(pieceLog) >= 2
    /\ CallOfSealedSector
    /\ call.fn = "unseal_range"
    /\ call.offset = pieceLog[2].start
    /\ call.offset > 0
    /\ call.num_bytes = Len(pieceLog[2].bytes)
    /\ result.kind = "ok"
    /\ sink = pieceLog[2].bytes

\* C2: for every unpadded offset and num_bytes with offset + num_bytes inside
\* the sector, aligned to 127 bytes or not, the unseal functions write exactly
\* the original unpadded bytes [offset, offset + num_bytes) to the sink and
\* return num_bytes.
C2_AnyRangeUnsealed ==
    ( /\ CallOfSealedSector
      /\ call.offset + call.num_bytes <= SectorUnpaddedBytes )
    => /\ result.kind = "ok"
       /\ result.amount = call.num_bytes
       /\ sink = SubSeq(original, call.offset + 1, call.offset + call.num_bytes)

\* The same for offsets that are multiples of 127 bytes only.
AlignedRangeUnsealed ==
    ( /\ CallOfSealedSector
      /\ call.offset % MINIMUM_PIECE_SIZE = 0
      /\ call.offset + call.num_bytes <= SectorUnpaddedBytes )
    => /\ result.kind = "ok"
       /\ result.amount = call.num_bytes
       /\ sink = SubSeq(original, call.offset + 1, call.offset + call.num_bytes)

\* C3: unseal_range, unseal_range_mapped and get_unsealed_range return an
\* error when comm_d is the all-zero value, whatever the other arguments, and
\* have then neither read, mapped nor decoded the sealed sector, nor written
\* to the sink.
C3_ZeroCommDRejected ==
    (call # NoCall /\ call.comm_d = ZeroCommitment)
    => /\ result.kind = "err"
       /\ ~sealedRead
       /\ sink = <<>>

\* A mapped request with the all-zero comm_d on an openable sealed file.
C3_Witness ==
    /\ call # NoCall
    /\ call.fn = "unseal_range_mapped"
    /\ call.comm_d = ZeroCommitment
    /\ call.can_open
    /\ call.offset + call.num_bytes <= SectorUnpaddedBytes
    /\ result.kind = "err"

\* The sealed file holds what sealing wrote: the staged sector encoded with
\* the key of the sector's replica id.
SealedAsWritten ==
    sealed = EncodeSector(staged, GenerateReplicaId(ProverId, SectorIdOfSector, sealedTicket,
                                                    sealedCommD, PorepId))

\* C27: whatever unseal_range_mapped or get_unsealed_range returns - a
\* success, an error, or a panic while slicing - the sealed file at
\* sealed_path holds the bytes it held before the call, although the sector
\* was decoded in place in the mapping.
C27_UnsealLeavesReplica ==
    (call # NoCall /\ call.fn \in {"unseal_range_mapped", "get_unsealed_range"}) =>
        SealedAsWritten

\* A mapped unseal that decoded the sector and wrote a piece to the sink.
C27_Witness ==
    /\ CallOfSealedSector
    /\ call.fn = "unseal_range_mapped"
    /\ sealedRead
    /\ result.kind = "ok"
    /\ Len(sink) = MINIMUM_PIECE_SIZE
    /\ DecodeSector(sealed, GenerateReplicaId(ProverId, SectorIdOfSector, sealedTicket,
                                              sealedCommD, PorepId)) # sealed
    /\ SealedAsWritten

\* The request reaches the slicing with a padded range that ends beyond the
\* sealed sector buffer.
RangeBeyondSealed ==
    /\ call # NoCall
    /\ call.fn \in {"unseal_range", "unseal_range_mapped"}
    /\ CommDAccepted(call.comm_d)
    /\ call.can_open
    /\ ToPaddedBytes(call.offset) + ToPaddedBytes(call.num_bytes) > Len(sealed)

\* C28 as stated: when padded(offset) + padded(num_bytes) exceeds the length
\* of the sealed sector buffer, unseal_range and unseal_range_mapped return
\* an error value and write nothing to the sink.
C28_RangeBeyondSealedIsError ==
    RangeBeyondSealed => (result.kind = "err" /\ sink = <<>>)

\* What the code does with such a range: &data[start..end] panics, and
\* nothing was written to the sink before.
RangeBeyondSealedPanics ==
    RangeBeyondSealed => (result.kind = "panic" /\ sink = <<>>)

RangeBeyondSealedRequested ==
    /\ RangeBeyondSealed
    /\ call.fn = "unseal_range"
    /\ call.offset = MINIMUM_PIECE_SIZE
    /\ call.num_bytes = SectorUnpaddedBytes

(***************************************************************************)
(* verify_store, verify_level_cache_store                                  *)
(***************************************************************************)
\* Largest number of base trees a store is split into.
MaxShards == 2

\* Directories and store ids of the configs handed to the verification.
StorePaths == {"cache", "tree-d"}
StoreIds == {"tree-d", "tree-c", "tree-r-last", "layer-1"}
\* Nodes of a binary tree over four leaves, the configured store size.
StoreSize == 7
\* Nodes a written store file may hold.
FileNodes == {1, 3, StoreSize}

\* str::contains
Contains(s, t) == \E i \in 1..((Len(s) - Len(t)) + 1) : SubSeq(s, i, (i + Len(t)) - 1) = t

\* str::replace: every non-overlapping occurrence of `from`, left to right
RECURSIVE Replace(_, _, _)
Replace(s, from, to) ==
    IF Len(s) < Len(from) THEN s
    ELSE IF SubSeq(s, 1, Len(from)) = from
         THEN to \o Replace(SubSeq(s, Len(from) + 1, Len(s)), from, to)
         ELSE SubSeq(s, 1, 1) \o Replace(SubSeq(s, 2, Len(s)), from, to)

\* StoreConfig::data_path(path, id)
DataPath(path, id) == path \o "/sc-02-data-" \o id \o ".dat"

\* orig_path.replace(".dat", format!("-{}.dat", i))
CurPath(orig_path, i) == Replace(orig_path, ".dat", "-" \o ToString(i) \o ".dat")

Exists(path) == path \in DOMAIN files

\* the first of tree_names that the path contains, "" when it contains none
TreeNameIn(path_str) ==
    IF Contains(path_str, "tree-d") THEN "tree-d"
    ELSE IF Contains(path_str, "tree-c") THEN "tree-c"
    ELSE IF Contains(path_str, "tree-r-last") THEN "tree-r-last"
    ELSE ""

\* The configs pushed by the loop over 0..required_configs, in order: one for
\* every i whose cur_path exists and contains a tree name.
RECURSIVE ShardConfigs(_, _, _)
ShardConfigs(config, orig_path, n) ==
    IF n = 0 THEN <<>>
    ELSE LET i == n - 1
             cur_path == CurPath(orig_path, i)
             name == TreeNameIn(cur_path)
             before == ShardConfigs(config, orig_path, i)
         IN IF Exists(cur_path) /\ name # ""
            THEN Append(before, [path |-> config.path,
                                 id |-> name \o "-" \o ToString(i),
                                 size |-> config.size])
            ELSE before

ConfigsCompleteWithOne(found, required_configs) == found >= 1
\* ensure!(configs.len() == required_configs)
ConfigsComplete(found, required_configs) == found = required_configs

\* DiskStore::is_consistent: the file holds store_size nodes
DiskStoreIsConsistent(nodes, store_size, arity) == nodes = store_size

\* LevelCacheStore::is_consistent: the file holds the nodes above the leaves
\* of a tree of store_size nodes and the given arity
LevelCacheStoreIsConsistent(nodes, store_size, arity) ==
    LET leafs == ((store_size * (arity - 1)) + 1) \div arity
    IN nodes = store_size - leafs

IsConsistent(kind, nodes, store_size, arity) ==
    IF kind = "disk" THEN DiskStoreIsConsistent(nodes, store_size, arity)
    ELSE LevelCacheStoreIsConsistent(nodes, store_size, arity)

\* The check of one store file: an I/O error when it cannot be opened.
CheckStore(kind, store_len, arity, config) ==
    LET data_path == DataPath(config.path, config.id)
    IN IF ~Exists(data_path) THEN "io"
       ELSE IF IsConsistent(kind, files[data_path], store_len, arity) THEN "ok"
       ELSE "inconsistent"

\* The outcome of checking the configs in order: the first failure, or "ok".
RECURSIVE CheckStores(_, _, _, _)
CheckStores(kind, store_len, arity, configs) ==
    IF configs = <<>> THEN "ok"
    ELSE LET first == CheckStore(kind, store_len, arity, Head(configs))
         IN IF first # "ok" THEN first
            ELSE CheckStores(kind, store_len, arity, Tail(configs))

\* The body shared by verify_store (kind "disk") and verify_level_cache_store
\* (kind "level_cache").
VerifyStoreOutcome(kind, config, arity, required_configs) ==
    LET store_path == DataPath(config.path, config.id)
    IN IF ~Exists(store_path)
       THEN LET configs == ShardConfigs(config, store_path, required_configs)
            IN IF ~ConfigsComplete(Len(configs), required_configs) THEN "missing"
               ELSE CheckStores(kind, config.size, arity, configs)
       ELSE CheckStore(kind, config.size, arity, config)

ResultOf(outcome) ==
    IF outcome = "ok" THEN [kind |-> "ok"] ELSE [kind |-> "err", error |-> outcome]

\* Tree shapes: base arity, sub-tree arity, top-tree arity.
Trees == {[Arity |-> 2, SubTreeArity |-> 0, TopTreeArity |-> 0],
          [Arity |-> 8, SubTreeArity |-> 2, TopTreeArity |-> 0]}

GetBaseTreeCount(tree) ==
    IF tree.TopTreeArity = 0 /\ tree.SubTreeArity = 0 THEN 1
    ELSE IF tree.TopTreeArity > 0 THEN tree.TopTreeArity * tree.SubTreeArity
    ELSE tree.SubTreeArity

VerifyStore(config, arity, required_configs) ==
    /\ verifyCall = NoCall
    /\ verifyCall' = [fn |-> "verify_store", kind |-> "disk", arity |-> arity,
                      required |-> required_configs]
    /\ verifyResult' = ResultOf(VerifyStoreOutcome("disk", config, arity, required_configs))
    /\ UNCHANGED <<storeConfig, files>>
    /\ UNCHANGED notStoreVars

VerifyLevelCacheStore(config, tree) ==
    /\ verifyCall = NoCall
    /\ verifyCall' = [fn |-> "verify_level_cache_store", kind |-> "level_cache",
                      arity |-> tree.Arity, required |-> GetBaseTreeCount(tree)]
    /\ verifyResult' = ResultOf(VerifyStoreOutcome("level_cache", config, tree.Arity,
                                                   GetBaseTreeCount(tree)))
    /\ UNCHANGED <<storeConfig, files>>
    /\ UNCHANGED notStoreVars

ReturnVerify ==
    /\ verifyCall # NoCall
    /\ verifyCall' = NoCall
    /\ verifyResult' = NoResult
    /\ UNCHANGED <<storeConfig, files>>
    /\ UNCHANGED notStoreVars

\* The files a sealing run may leave for the store: the canonical one and one
\* per base tree.
StoreFilePaths ==
    {DataPath(storeConfig.path, storeConfig.id)}
        \cup {CurPath(DataPath(storeConfig.path, storeConfig.id), i) : i \in 0..(MaxShards - 1)}

WriteStoreFile(path, nodes) ==
    /\ verifyCall = NoCall
    /\ IF Exists(path) THEN files[path] # nodes ELSE TRUE
    /\ files' = [p \in DOMAIN files \cup {path} |-> IF p = path THEN nodes ELSE files[p]]
    /\ UNCHANGED <<storeConfig, verifyCall, verifyResult>>
    /\ UNCHANGED notStoreVars

RemoveStoreFile(path) ==
    /\ verifyCall = NoCall
    /\ Exists(path)
    /\ files' = [p \in DOMAIN files \ {path} |-> files[p]]
    /\ UNCHANGED <<storeConfig, verifyCall, verifyResult>>
    /\ UNCHANGED notStoreVars

InitStore ==
    /\ IdleUnseal
    /\ IdleSeal
    /\ IdlePost
    /\ IdleAggregate
    /\ IdleUpdate
    /\ IdleValidate
    /\ IdleData
    /\ IdlePiece
    /\ IdlePartition
    /\ IdleWinning
    /\ IdleCommit
    /\ IdleChallenges
    /\ IdleOutput
    /\ IdleThreads
    /\ storeConfig \in [path : StorePaths, id : StoreIds, size : {StoreSize}]
    /\ files = <<>>
    /\ verifyCall = NoCall
    /\ verifyResult = NoResult

WriteStoreFileCall == \E path \in StoreFilePaths, nodes \in FileNodes : WriteStoreFile(path, nodes)

RemoveStoreFileCall == \E path \in StoreFilePaths : RemoveStoreFile(path)

VerifyStoreCall ==
    \E arity \in {2, 8}, required_configs \in 1..MaxShards :
        VerifyStore(storeConfig, arity, required_configs)

VerifyLevelCacheStoreCall == \E tree \in Trees : VerifyLevelCacheStore(storeConfig, tree)

NextStore ==
    \/ WriteStoreFileCall
    \/ RemoveStoreFileCall
    \/ VerifyStoreCall
    \/ VerifyLevelCacheStoreCall
    \/ ReturnVerify

SpecStore == InitStore /\ [][NextStore]_vars

\* The files the claim names: <path>/<id>.dat and its shards <id>-<i>.dat.
CanonicalFile == DataPath(storeConfig.path, storeConfig.id)
ShardFile(i) == DataPath(storeConfig.path, storeConfig.id \o "-" \o ToString(i))
RequiredShardFiles == {ShardFile(i) : i \in 0..(verifyCall.required - 1)}

\* The file exists and passes the check of the store kind being verified.
ConsistentFile(path) ==
    /\ Exists(path)
    /\ IsConsistent(verifyCall.kind, files[path], storeConfig.size, verifyCall.arity)

VerifiedOk == verifyResult.kind = "ok"
VerifiedErr(error) == verifyResult.kind = "err" /\ verifyResult.error = error

\* The verdict on the canonical file: Ok exactly when it is consistent, the
\* inconsistent-store error otherwise.
CanonicalVerdict ==
    /\ VerifiedOk <=> ConsistentFile(CanonicalFile)
    /\ ~ConsistentFile(CanonicalFile) => VerifiedErr("inconsistent")

\* The verdict on the shards: Ok exactly when all required ones exist and are
\* consistent, the missing-store error when one does not exist, the
\* inconsistent-store error when all exist and one fails the check.
ShardVerdict ==
    /\ VerifiedOk <=> \A f \in RequiredShardFiles : ConsistentFile(f)
    /\ (\E f \in RequiredShardFiles : ~Exists(f)) => VerifiedErr("missing")
    /\ ( /\ \A f \in RequiredShardFiles : Exists(f)
         /\ \E f \in RequiredShardFiles : ~ConsistentFile(f) ) => VerifiedErr("inconsistent")

\* C10 as stated: for every store config, when the canonical file exists the
\* result is Ok exactly when it is consistent; when it does not, the result is
\* Ok exactly when all required shard files exist and are consistent, a
\* missing-store error when fewer exist, an inconsistent-store error when a
\* file fails the check.
C10_AsStated ==
    verifyCall # NoCall =>
        IF Exists(CanonicalFile) THEN CanonicalVerdict ELSE ShardVerdict

\* The directory of the store names no tree and holds no ".dat".
PlainStorePath == TreeNameIn(storeConfig.path) = "" /\ ~Contains(storeConfig.path, ".dat")
\* The store is one of the three tree stores.
TreeStore == storeConfig.id \in {"tree-d", "tree-c", "tree-r-last"}

\* C10, amended: in a directory whose path names no tree kind and holds no
\* ".dat", the canonical file, when it exists, decides the result; when it
\* does not exist, the shards decide it for the stores tree-d, tree-c and
\* tree-r-last only (a missing shard takes precedence over an inconsistent
\* one), and for a store whose id names no tree kind (a layer store) the
\* result is the missing-store error whatever shard files exist.
C10_VerifyStoreVerdict ==
    (verifyCall # NoCall /\ PlainStorePath) =>
        IF Exists(CanonicalFile) THEN CanonicalVerdict
        ELSE IF TreeStore THEN ShardVerdict
        ELSE TreeNameIn(storeConfig.id) = "" => VerifiedErr("missing")

\* A store split in two shards, both present and consistent, accepted.
C10_Witness ==
    /\ verifyCall # NoCall
    /\ PlainStorePath
    /\ TreeStore
    /\ verifyCall.required = 2
    /\ ~Exists(CanonicalFile)
    /\ \A f \in RequiredShardFiles : ConsistentFile(f)
    /\ VerifiedOk

(***************************************************************************)
(* Seal pipeline: seal_pre_commit_phase1 (resumable layer labelling),      *)
(* seal_pre_commit_phase2 and the standalone tree builders.                *)
(***************************************************************************)
\* Runs of seal_pre_commit_phase1 on one sector.
MaxRuns == 2

\* Label layers of the sector shape under test.
LAYERS == 2
\* Nodes of the sector, and the modulus of the node values.
SealNodes == 4
LabelModulus == 97
\* Base trees a sector's trees are split into.
SealShapes == {1, 2}

SealDataOf(seed) == [i \in 1..SealNodes |-> ((seed * 17) + (i * 5)) % LabelModulus]

\* The label of node i of a layer, from its parent in the same layer and its
\* parent in the previous layer.
LabelNode(replica_id, layer, i, drg_parent, exp_parent) ==
    ((replica_id * 7) + (layer * 13) + (i * 3) + (drg_parent * 5) + (exp_parent * 11) + 1)
        % LabelModulus

\* The first n labels of a layer; `exp` holds the labels of the previous layer.
RECURSIVE LayerLabels(_, _, _, _)
LayerLabels(replica_id, layer, exp, n) ==
    IF n = 0 THEN <<>>
    ELSE LET before == LayerLabels(replica_id, layer, exp, n - 1)
             drg_parent == IF n = 1 THEN 0 ELSE before[n - 1]
             exp_parent == IF layer = 1 THEN 0 ELSE exp[((n * 3) % SealNodes) + 1]
         IN Append(before, LabelNode(replica_id, layer, n, drg_parent, exp_parent))

\* is_layer_written: the layer store exists with the size of the sector
IsLayerWritten(file) == file.present /\ Len(file.nodes) = SealNodes

ReadLayerNothing(file) == Zeros(SealNodes)
\* read_layer: an already generated layer is loaded as the next layer's input
ReadLayer(file) == file.nodes

\* Labelling from layer `layer` on: a layer already written is skipped and
\* loaded, a missing one is computed from the previous layer and written.
RECURSIVE CreateLabels(_, _, _, _)
CreateLabels(replica_id, stores, layer, exp) ==
    IF layer > LAYERS THEN stores
    ELSE IF IsLayerWritten(stores[layer])
         THEN CreateLabels(replica_id, stores, layer + 1, ReadLayer(stores[layer]))
         ELSE LET labels == LayerLabels(replica_id, layer, exp, SealNodes)
              IN CreateLabels(replica_id,
                              [stores EXCEPT ![layer] = [present |-> TRUE, nodes |-> labels]],
                              layer + 1, labels)

SealPreCommitPhase1(ticket) ==
    /\ sealData # <<>>
    /\ p1Runs < MaxRuns
    /\ LET comm_d == ComputeCommD(sealData)
           replica_id == GenerateReplicaId(ProverId, SectorIdOfSector, ticket, comm_d, PorepId)
           labels == CreateLabels(replica_id, layerFiles, 1, Zeros(SealNodes))
       IN /\ layerFiles' = labels
          /\ p1Output' = [kind |-> "ok", ticket |-> ticket, replica_id |-> replica_id,
                          comm_d |-> comm_d, layers |-> LAYERS]
          /\ refRun' = IF p1Runs = 0
                       THEN [kind |-> "ok", ticket |-> ticket, layers |-> labels]
                       ELSE refRun
    /\ layersBefore' = layerFiles
    /\ p1Runs' = p1Runs + 1
    /\ UNCHANGED <<sealData, sealShape, replicaFile, cacheTrees, outTreeC, outTreeRLast>>
    /\ UNCHANGED notSealVars

\* remove_file(&layers[layer_to_delete])
DeleteLayer(layer) ==
    /\ sealData # <<>>
    /\ layerFiles[layer].present
    /\ layerFiles' = [layerFiles EXCEPT ![layer] = NoFile]
    /\ UNCHANGED <<sealData, sealShape, p1Output, p1Runs, refRun, layersBefore,
                   replicaFile, cacheTrees, outTreeC, outTreeRLast>>
    /\ UNCHANGED notSealVars

\* The tree hasher over two children.
HashChildren(a, b) == ((a * 3) + (b * 5) + 7) % LabelModulus

\* A binary tree store over the leaves: the leaves, then every row above them.
RECURSIVE BuildTree(_)
BuildTree(row) ==
    IF Len(row) <= 1 THEN row
    ELSE row \o BuildTree([j \in 1..(Len(row) \div 2) |->
                              HashChildren(row[(2 * j) - 1], row[2 * j])])

ChunkFirstOnly(nodes, k, count) == SubSeq(nodes, 1, Len(nodes) \div count)
\* The nodes of base tree k out of `count`.
Chunk(nodes, k, count) ==
    SubSeq(nodes, ((k - 1) * (Len(nodes) \div count)) + 1, k * (Len(nodes) \div count))

\* The column hash of node i over the first num_layers layers.
RECURSIVE ColumnHash(_, _, _)
ColumnHash(labels, num_layers, i) ==
    IF num_layers = 0 THEN 1
    ELSE ((ColumnHash(labels, num_layers - 1, i) * 31) + labels[num_layers][i]) % LabelModulus

\* StackedDrg::generate_tree_c: one store per base tree over the column hashes
GenerateTreeCStores(labels, num_layers, count) ==
    LET leaves == [i \in 1..SealNodes |-> ColumnHash(labels, num_layers, i)]
    IN [k \in 1..count |-> BuildTree(Chunk(leaves, k, count))]

EncodeNode(data_node, key_node) == (data_node + key_node) % LabelModulus

\* Phase 2 builds tree_r_last while it encodes: base tree k is built over the
\* data nodes of its range encoded with the labels of the last layer.
EncodeAndBuildTreeRLast(data, key, count) ==
    LET base_leafs == Len(data) \div count
    IN [k \in 1..count |->
           BuildTree([j \in 1..base_leafs |->
                         EncodeNode(data[((k - 1) * base_leafs) + j],
                                    key[((k - 1) * base_leafs) + j])])]

\* The standalone builder reads the leaves of each base tree from the replica.
BuildTreeRLastFromReplica(replica, count) ==
    [k \in 1..count |-> BuildTree(Chunk(replica, k, count))]

StoredLabels(stores, num_layers) == [l \in 1..num_layers |-> ReadLayer(stores[l])]

\* seal_pre_commit_phase2, called on a cache that validate_cache_for_precommit_phase2
\* accepts: writes the replica, the tree_c stores and the tree_r_last stores.
SealPreCommitPhase2 ==
    /\ p1Output.kind = "ok"
    /\ \A l \in 1..LAYERS : IsLayerWritten(layerFiles[l])
    /\ LET labels == StoredLabels(layerFiles, p1Output.layers)
           key == labels[p1Output.layers]
           replica == [i \in 1..SealNodes |-> EncodeNode(sealData[i], key[i])]
           trees == [built |-> TRUE,
                     tree_c |-> GenerateTreeCStores(labels, p1Output.layers, sealShape),
                     tree_r_last |-> EncodeAndBuildTreeRLast(sealData, key, sealShape),
                     layers |-> labels,
                     replica |-> replica]
       IN /\ cacheTrees # trees
          /\ cacheTrees' = trees
          /\ replicaFile' = [present |-> TRUE, nodes |-> replica]
    /\ UNCHANGED <<sealData, sealShape, layerFiles, p1Output, p1Runs, refRun, layersBefore,
                   outTreeC, outTreeRLast>>
    /\ UNCHANGED notSealVars

\* generate_tree_r_last(sector_size, replica_path, output_dir)
GenerateTreeRLast ==
    /\ replicaFile.present
    /\ LET out == [built |-> TRUE,
                   files |-> BuildTreeRLastFromReplica(replicaFile.nodes, sealShape),
                   replica |-> replicaFile.nodes]
       IN /\ outTreeRLast # out
          /\ outTreeRLast' = out
    /\ UNCHANGED <<sealData, sealShape, layerFiles, p1Output, p1Runs, refRun, layersBefore,
                   replicaFile, cacheTrees, outTreeC>>
    /\ UNCHANGED notSealVars

\* generate_tree_c(sector_size, input_dir, output_dir, num_layers)
GenerateTreeC(num_layers) ==
    /\ sealData # <<>>
    /\ \A l \in 1..num_layers : IsLayerWritten(layerFiles[l])
    /\ LET labels == StoredLabels(layerFiles, num_layers)
           out == [built |-> TRUE,
                   files |-> GenerateTreeCStores(labels, num_layers, sealShape),
                   layers |-> labels]
       IN /\ outTreeC # out
          /\ outTreeC' = out
    /\ UNCHANGED <<sealData, sealShape, layerFiles, p1Output, p1Runs, refRun, layersBefore,
                   replicaFile, cacheTrees, outTreeRLast>>
    /\ UNCHANGED notSealVars

InitSeal ==
    /\ IdleUnseal
    /\ IdleStore
    /\ IdlePost
    /\ IdleAggregate
    /\ IdleUpdate
    /\ IdleValidate
    /\ IdleData
    /\ IdlePiece
    /\ IdlePartition
    /\ IdleWinning
    /\ IdleCommit
    /\ IdleChallenges
    /\ IdleOutput
    /\ IdleThreads
    /\ sealData \in {SealDataOf(seed) : seed \in Seeds}
    /\ sealShape \in SealShapes
    /\ layerFiles = [l \in 1..LAYERS |-> NoFile]
    /\ p1Output = NoResult
    /\ p1Runs = 0
    /\ refRun = NoResult
    /\ layersBefore = [l \in 1..LAYERS |-> NoFile]
    /\ replicaFile = NoFile
    /\ cacheTrees = NoTrees
    /\ outTreeC = NoTrees
    /\ outTreeRLast = NoTrees

SealPreCommitPhase1Call == \E ticket \in Tickets : SealPreCommitPhase1(ticket)

DeleteLayerCall == \E layer \in 1..LAYERS : DeleteLayer(layer)

GenerateTreeCCall == \E num_layers \in 1..LAYERS : GenerateTreeC(num_layers)

NextSeal ==
    \/ SealPreCommitPhase1Call
    \/ DeleteLayerCall
    \/ SealPreCommitPhase2
    \/ GenerateTreeRLast
    \/ GenerateTreeCCall

SpecSeal == InitSeal /\ [][NextSeal]_vars

\* The last run of phase 1 was a repeated run with the inputs of the first.
RepeatedRun == p1Runs >= 2 /\ p1Output.ticket = refRun.ticket

\* The repeated run found the layer stores of the first run, layer d excepted.
FoundAllBut(d) ==
    /\ ~layersBefore[d].present
    /\ \A l \in (1..LAYERS) \ {d} : layersBefore[l] = refRun.layers[l]

\* C4: after a completed seal_pre_commit_phase1 of a two-layer sector,
\* deleting exactly one layer store (either one) and running phase 1 again
\* with the same inputs leaves both layer stores present and identical to those
\* of the uninterrupted run; with no layer deleted, the repeated run leaves
\* the valid layer stores as it found them.
C4_ResumedLayersIdentical ==
    [][ ( /\ p1Runs >= 1
          /\ p1Runs' = p1Runs + 1
          /\ p1Output'.ticket = refRun.ticket )
        => /\ ( \E d \in 1..LAYERS :
                   /\ ~layerFiles[d].present
                   /\ \A l \in (1..LAYERS) \ {d} : layerFiles[l] = refRun.layers[l] )
              => /\ \A l \in 1..LAYERS : layerFiles'[l].present
                 /\ layerFiles' = refRun.layers
           /\ (\A l \in 1..LAYERS : IsLayerWritten(layerFiles[l]))
              => layerFiles' = layerFiles ]_vars

\* The first layer was deleted and the repeated run restored it, next to the
\* second layer it kept.
C4_Witness ==
    /\ RepeatedRun
    /\ FoundAllBut(1)
    /\ \A l \in 1..LAYERS : layerFiles[l].present
    /\ layerFiles = refRun.layers

\* The second layer was deleted and the repeated run restored it.
ResumedAfterSecondLayer ==
    /\ RepeatedRun
    /\ FoundAllBut(2)
    /\ layerFiles = refRun.layers

MaxSectors == 2

\* Leaves of a replica and challenges per sector.
PostLeaves == 4
ChallengesPerSector == 2
Randomness == {1, 2, 3}

\* The replica file of a sealed sector, and the files a fault leaves in its
\* place: unreadable, empty, cut to half its length.
IntactReplica == [readable |-> TRUE, leaves |-> PostLeaves]
BadReplicas == {[readable |-> FALSE, leaves |-> PostLeaves],
                [readable |-> TRUE, leaves |-> 0],
                [readable |-> TRUE, leaves |-> PostLeaves \div 2]}

\* comm_r of a sector and the leaf values it commits to.
CommROf(sector_id) == 10 + sector_id
LeafValue(sector_id, leaf) == ((sector_id * 7) + (leaf * 3)) % LabelModulus
CommittedLeaf(comm_r, leaf) == LeafValue(comm_r - 10, leaf)

\* generate_fallback_sector_challenges: the j-th challenged leaf of a sector
ChallengedLeaf(randomness, sector_id, j) == (randomness + sector_id + j) % PostLeaves

\* The vanilla proof of a sector cannot be produced: a challenged leaf cannot
\* be read from the replica.
CannotProve(replica, randomness, sector_id) ==
    \/ ~replica.readable
    \/ \E j \in 1..ChallengesPerSector :
           ChallengedLeaf(randomness, sector_id, j) >= replica.leaves

FaultySectorsFirstOnly(batch, randomness) ==
    LET faulty == {sector_id \in DOMAIN batch : CannotProve(batch[sector_id], randomness, sector_id)}
    IN {sector_id \in faulty : \A other \in faulty : sector_id <= other}
\* Every sector of the batch whose vanilla proof cannot be produced.
FaultySectors(batch, randomness) ==
    {sector_id \in DOMAIN batch : CannotProve(batch[sector_id], randomness, sector_id)}

\* The vanilla proof of a sector: the opening of every challenged leaf.
VanillaProof(randomness, sector_id) ==
    [j \in 1..ChallengesPerSector |->
        LET leaf == ChallengedLeaf(randomness, sector_id, j)
        IN [leaf |-> leaf, value |-> LeafValue(sector_id, leaf)]]

GenerateWindowPoSt(randomness) ==
    /\ postSectors > 0
    /\ postCall = NoCall
    /\ postCall' = [fn |-> "generate_window_post", randomness |-> randomness]
    /\ LET faulty == FaultySectors(replicas, randomness)
       IN postResult' =
              IF faulty # {}
              THEN [kind |-> "err", error |-> "FaultySectors", sector_ids |-> faulty]
              ELSE [kind |-> "ok",
                    proof |-> [sector_id \in DOMAIN replicas |->
                                  VanillaProof(randomness, sector_id)]]
    /\ UNCHANGED <<postSectors, replicas, postVerified>>
    /\ UNCHANGED notPostVars

\* verify_window_post against the public replicas (the comm_r of each sector)
VerifyWindowPoSt(randomness) ==
    /\ postCall # NoCall
    /\ postResult.kind = "ok"
    /\ postVerified = NoResult
    /\ postVerified' =
           [kind |-> "ok", randomness |-> randomness,
            valid |-> \A sector_id \in 1..postSectors, j \in 1..ChallengesPerSector :
                          LET opening == postResult.proof[sector_id][j]
                          IN /\ opening.leaf = ChallengedLeaf(randomness, sector_id, j)
                             /\ opening.value = CommittedLeaf(CommROf(sector_id), opening.leaf)]
    /\ UNCHANGED <<postSectors, replicas, postCall, postResult>>
    /\ UNCHANGED notPostVars

ReturnPost ==
    /\ postCall # NoCall
    /\ postCall' = NoCall
    /\ postResult' = NoResult
    /\ postVerified' = NoResult
    /\ UNCHANGED <<postSectors, replicas>>
    /\ UNCHANGED notPostVars

\* A fault replaces the replica file of a sector.
CorruptReplica(sector_id, bad) ==
    /\ postCall = NoCall
    /\ replicas[sector_id] # bad
    /\ replicas' = [replicas EXCEPT ![sector_id] = bad]
    /\ UNCHANGED <<postSectors, postCall, postResult, postVerified>>
    /\ UNCHANGED notPostVars

InitPoSt ==
    /\ IdleUnseal
    /\ IdleStore
    /\ IdleSeal
    /\ IdleAggregate
    /\ IdleUpdate
    /\ IdleValidate
    /\ IdleData
    /\ IdlePiece
    /\ IdlePartition
    /\ IdleWinning
    /\ IdleCommit
    /\ IdleChallenges
    /\ IdleOutput
    /\ IdleThreads
    /\ postSectors \in 1..MaxSectors
    /\ replicas = [sector_id \in 1..postSectors |-> IntactReplica]
    /\ postCall = NoCall
    /\ postResult = NoResult
    /\ postVerified = NoResult

GenerateWindowPoStCall == \E randomness \in Randomness : GenerateWindowPoSt(randomness)

VerifyWindowPoStCall == \E randomness \in Randomness : VerifyWindowPoSt(randomness)

CorruptReplicaCall ==
    \E sector_id \in 1..postSectors, bad \in BadReplicas : CorruptReplica(sector_id, bad)

NextPoSt ==
    \/ CorruptReplicaCall
    \/ GenerateWindowPoStCall
    \/ VerifyWindowPoStCall
    \/ ReturnPost

SpecPoSt == InitPoSt /\ [][NextPoSt]_vars

\* The sectors whose replica file is not the sealed one (unreadable, empty or
\* truncated), and those among them that are unreadable or empty.
CorruptedSectors == {sector_id \in 1..postSectors : replicas[sector_id] # IntactReplica}
UnusableSectors ==
    {sector_id \in 1..postSectors :
        ~replicas[sector_id].readable \/ replicas[sector_id].leaves = 0}

ProofVerifies ==
    postVerified # NoResult /\ postVerified.randomness = postCall.randomness
        => postVerified.valid

HealthyBatchVerified ==
    /\ postCall # NoCall
    /\ CorruptedSectors = {}
    /\ postVerified # NoResult
    /\ postVerified.randomness = postCall.randomness
    /\ postVerified.valid

(***************************************************************************)
(* Aggregation of seal commit proofs under a versioned scheme.             *)
(***************************************************************************)
\* Proofs in one aggregate.
MaxProofs == 2

AggregateVersions == {"V1", "V2"}
CommRs == {1, 2}
SealSeeds == {1, 2}

\* The commit proof of a sector with the given comm_r and seed.
CommitProofOf(comm_r, seed) == ((comm_r * 5) + (seed * 3)) % LabelModulus

RECURSIVE SumSeq(_)
SumSeq(seq) == IF seq = <<>> THEN 0 ELSE Head(seq) + SumSeq(Tail(seq))

TranscriptWithoutVersion(version, comm_rs, seeds, commitment) ==
    ((17 * SumSeq(comm_rs)) + (29 * SumSeq(seeds)) + (2 * commitment)) % LabelModulus
\* The challenge of the scheme: a digest of the public inputs and of the
\* commitment to the proofs, domain-separated by the scheme version.
Transcript(version, comm_rs, seeds, commitment) ==
    ((17 * SumSeq(comm_rs)) + (29 * SumSeq(seeds)) + (2 * commitment)
        + (IF version = "V1" THEN 1 ELSE 2)) % LabelModulus

\* The commitment to a list of proofs, and the response to a challenge.
CommitmentTo(proofs) == SumSeq(proofs) % (LabelModulus - 1)
Response(commitment, challenge) == ((1 + commitment) * challenge) % LabelModulus

AggregateSealCommitProofs(comm_rs, seeds, commit_outputs, aggregate_version) ==
    /\ commitOutput # NoResult
    /\ aggregateCall = NoCall
    /\ aggregateCall' = [fn |-> "aggregate_seal_commit_proofs", comm_rs |-> comm_rs,
                         seeds |-> seeds, version |-> aggregate_version]
    /\ LET commitment == CommitmentTo(commit_outputs)
           challenge == Transcript(aggregate_version, comm_rs, seeds, commitment)
       IN aggregateProof' = [kind |-> "ok", commitment |-> commitment,
                             response |-> Response(commitment, challenge)]
    /\ UNCHANGED <<commitOutput, aggregateVerified>>
    /\ UNCHANGED notAggregateVars

\* The verifier derives the proofs' statement from comm_rs and seeds and the
\* challenge from its own scheme version.
VerifyAggregateSealCommitProofs(aggregate_proof, comm_rs, seeds, aggregate_version) ==
    /\ aggregateCall # NoCall
    /\ aggregateVerified = NoResult
    /\ LET expected == CommitmentTo([i \in 1..Len(comm_rs) |->
                                        CommitProofOf(comm_rs[i], seeds[i])])
           challenge == Transcript(aggregate_version, comm_rs, seeds,
                                   aggregate_proof.commitment)
       IN aggregateVerified' =
              [kind |-> "ok", comm_rs |-> comm_rs, seeds |-> seeds,
               version |-> aggregate_version,
               valid |-> /\ aggregate_proof.commitment = expected
                         /\ aggregate_proof.response =
                                Response(aggregate_proof.commitment, challenge)]
    /\ UNCHANGED <<commitOutput, aggregateCall, aggregateProof>>
    /\ UNCHANGED notAggregateVars

ReturnAggregate ==
    /\ aggregateCall # NoCall
    /\ aggregateCall' = NoCall
    /\ aggregateProof' = NoResult
    /\ aggregateVerified' = NoResult
    /\ UNCHANGED commitOutput
    /\ UNCHANGED notAggregateVars

InitAggregate ==
    /\ IdleUnseal
    /\ IdleStore
    /\ IdleSeal
    /\ IdlePost
    /\ IdleUpdate
    /\ IdleValidate
    /\ IdleData
    /\ IdlePiece
    /\ IdlePartition
    /\ IdleWinning
    /\ IdleCommit
    /\ IdleChallenges
    /\ IdleOutput
    /\ IdleThreads
    /\ commitOutput \in {[kind |-> "ok", comm_r |-> comm_r, seed |-> seed,
                          proof |-> CommitProofOf(comm_r, seed)] :
                            comm_r \in CommRs, seed \in SealSeeds}
    /\ aggregateCall = NoCall
    /\ aggregateProof = NoResult
    /\ aggregateVerified = NoResult

\* n copies of one value, as the callers build their argument lists
Repeated(value, n) == [i \in 1..n |-> value]

AggregateSealCommitProofsCall ==
    \E n \in 1..MaxProofs, aggregate_version \in AggregateVersions :
        AggregateSealCommitProofs(Repeated(commitOutput.comm_r, n),
                                  Repeated(commitOutput.seed, n),
                                  Repeated(commitOutput.proof, n), aggregate_version)

VerifyAggregateSealCommitProofsCall ==
    \E comm_r \in CommRs, seed \in SealSeeds, aggregate_version \in AggregateVersions :
        VerifyAggregateSealCommitProofs(aggregateProof,
                                        Repeated(comm_r, Len(aggregateCall.comm_rs)),
                                        Repeated(seed, Len(aggregateCall.seeds)),
                                        aggregate_version)

NextAggregate ==
    \/ AggregateSealCommitProofsCall
    \/ VerifyAggregateSealCommitProofsCall
    \/ ReturnAggregate

SpecAggregate == InitAggregate /\ [][NextAggregate]_vars

\* The verification was made with the inputs the aggregate was built from.
VerifiedWithSameInputs ==
    /\ aggregateVerified # NoResult
    /\ aggregateVerified.comm_rs = aggregateCall.comm_rs
    /\ aggregateVerified.seeds = aggregateCall.seeds

\* C6: an aggregate built by aggregate_seal_commit_proofs under scheme version
\* V verifies true under V with the same inputs, and verification of the same
\* aggregate with the same inputs under the other version returns false, for
\* V = V1 and V = V2.
C6_AggregateVersionBound ==
    VerifiedWithSameInputs =>
        (aggregateVerified.valid <=> aggregateVerified.version = aggregateCall.version)

\* An aggregate of two proofs built under V2 and refused under V1.
C6_Witness ==
    /\ VerifiedWithSameInputs
    /\ Len(aggregateCall.comm_rs) = 2
    /\ aggregateCall.version = "V2"
    /\ aggregateVerified.version = "V1"
    /\ ~aggregateVerified.valid

\* An aggregate built under V1 and accepted under V1.
SameVersionAccepted ==
    /\ VerifiedWithSameInputs
    /\ aggregateCall.version = "V1"
    /\ aggregateVerified.version = "V1"
    /\ aggregateVerified.valid

(***************************************************************************)
(* Sector update: encode_into and its inverses.                            *)
(***************************************************************************)
\* Largest number of nodes decoded by one decode_from_range call.
MaxPartNodes == 2

\* Nodes of the sector and nodes that share one rho.
UpdateNodes == 4
NodesPerRho == 2

FrAdd(a, b) == (a + b) % LabelModulus
FrSub(a, b) == ((a + LabelModulus) - b) % LabelModulus
FrMul(a, b) == (a * b) % LabelModulus
FrInvert(a) == CHOOSE x \in 1..(LabelModulus - 1) : FrMul(a, x) = 1

\* Contents of the sector-key replica and of the new staged data.
SectorKeyOf(seed) == [i \in 1..UpdateNodes |-> ((seed * 23) + (i * 11)) % LabelModulus]
StagedOf(seed) == [i \in 1..UpdateNodes |-> ((seed * 41) + (i * i * 3) + 2) % LabelModulus]

\* Commitments: digests of the contents, never the all-zero value.
CommRDigest(nodes) == 1 + (SumSeq(nodes) % 5)
CommDDigest(nodes) == 1 + (SumSeq(nodes) % 7)

\* phi binds the new data commitment and the sector-key commitment; rho is
\* derived from phi and the high bits of the node index, and is never zero.
Phi(comm_d_new, comm_r_old) == ((comm_d_new * 13) + (comm_r_old * 19)) % LabelModulus
HighBits(node_index) == node_index \div NodesPerRho
Rho(phi, high) == 1 + (((phi * 3) + (high * 5)) % (LabelModulus - 1))

EncodeNodeInto(key_node, data_node, rho) == FrAdd(key_node, FrMul(data_node, rho))
DecodeNodeFrom(new_node, key_node, rho) == FrMul(FrSub(new_node, key_node), FrInvert(rho))
RemoveEncodedNodeWithoutRho(new_node, data_node, rho) == FrSub(new_node, data_node)
RemoveEncodedNode(new_node, data_node, rho) == FrSub(new_node, FrMul(data_node, rho))

\* encode_into: writes the new replica and returns the new commitments
EncodeInto ==
    /\ sectorKey # NoResult
    /\ newReplica = NoResult
    /\ LET comm_d_new == CommDDigest(newStaged)
           phi == Phi(comm_d_new, sectorKey.comm_r)
           nodes == [i \in 1..UpdateNodes |->
                        EncodeNodeInto(sectorKey.nodes[i], newStaged[i],
                                       Rho(phi, HighBits(i - 1)))]
       IN newReplica' = [kind |-> "ok", nodes |-> nodes, comm_d_new |-> comm_d_new,
                         comm_r_new |-> CommRDigest(nodes)]
    /\ UNCHANGED <<sectorKey, newStaged, decodedFile, decodedParts, removedFile>>
    /\ UNCHANGED notUpdateVars

\* decode_from(out, replica, sector key, sector key cache, comm_d_new)
DecodeFrom(comm_d_new) ==
    /\ newReplica # NoResult
    /\ decodedFile = NoResult
    /\ LET phi == Phi(comm_d_new, sectorKey.comm_r)
       IN decodedFile' =
              [kind |-> "ok", comm_d |-> comm_d_new,
               nodes |-> [i \in 1..UpdateNodes |->
                             DecodeNodeFrom(newReplica.nodes[i], sectorKey.nodes[i],
                                            Rho(phi, HighBits(i - 1)))]]
    /\ UNCHANGED <<sectorKey, newStaged, newReplica, decodedParts, removedFile>>
    /\ UNCHANGED notUpdateVars

RangeNodeIndexRelative(nodes_offset, i) == i
\* index in the sector of the i-th node of a range
RangeNodeIndex(nodes_offset, i) == nodes_offset + i

\* decode_from_range(nodes_count, comm_d, comm_r, input, sector_key, output,
\* nodes_offset, num_nodes): the readers stand at node `position`; the
\* decoded nodes are written to the output in sequence.
DecodeFromRange(comm_d, comm_r, position, nodes_offset, num_nodes) ==
    /\ newReplica # NoResult
    /\ position + num_nodes <= UpdateNodes
    /\ LET phi == Phi(comm_d, comm_r)
           part == [i \in 1..num_nodes |->
                       DecodeNodeFrom(newReplica.nodes[position + i],
                                      sectorKey.nodes[position + i],
                                      Rho(phi, HighBits(RangeNodeIndex(nodes_offset, i - 1))))]
           before == IF decodedParts = NoResult THEN <<>> ELSE decodedParts.nodes
       IN decodedParts' = [kind |-> "ok", nodes |-> before \o part,
                           parts |-> IF decodedParts = NoResult THEN 1
                                     ELSE decodedParts.parts + 1]
    /\ UNCHANGED <<sectorKey, newStaged, newReplica, decodedFile, removedFile>>
    /\ UNCHANGED notUpdateVars

\* remove_encoded_data(out, out cache, replica, sector key cache, staged data, comm_d_new)
RemoveEncodedData(comm_d_new) ==
    /\ newReplica # NoResult
    /\ removedFile = NoResult
    /\ LET phi == Phi(comm_d_new, sectorKey.comm_r)
       IN removedFile' =
              [kind |-> "ok", comm_d |-> comm_d_new,
               nodes |-> [i \in 1..UpdateNodes |->
                             RemoveEncodedNode(newReplica.nodes[i], newStaged[i],
                                               Rho(phi, HighBits(i - 1)))]]
    /\ UNCHANGED <<sectorKey, newStaged, newReplica, decodedFile, decodedParts>>
    /\ UNCHANGED notUpdateVars

InitUpdate ==
    /\ IdleUnseal
    /\ IdleStore
    /\ IdleSeal
    /\ IdlePost
    /\ IdleAggregate
    /\ IdleValidate
    /\ IdleData
    /\ IdlePiece
    /\ IdlePartition
    /\ IdleWinning
    /\ IdleCommit
    /\ IdleChallenges
    /\ IdleOutput
    /\ IdleThreads
    /\ sectorKey \in {[kind |-> "ok", nodes |-> SectorKeyOf(seed),
                       comm_r |-> CommRDigest(SectorKeyOf(seed))] : seed \in Seeds}
    /\ newStaged \in {StagedOf(seed) : seed \in Seeds}
    /\ newReplica = NoResult
    /\ decodedFile = NoResult
    /\ decodedParts = NoResult
    /\ removedFile = NoResult

\* The commitments a caller may hand over: the one encode_into returned, and another.
CommDInputs == {newReplica.comm_d_new, newReplica.comm_d_new + 1}

DecodeFromCall ==
    /\ newReplica # NoResult
    /\ \E comm_d_new \in CommDInputs : DecodeFrom(comm_d_new)

\* decode_from_range_in_parts: the next range starts where the last one
\* ended, both readers are moved to its first node, and the range has any
\* size up to MaxPartNodes that stays inside the sector.
DecodeFromRangeCall ==
    /\ newReplica # NoResult
    /\ \E num_nodes \in 1..MaxPartNodes :
        LET offset == IF decodedParts = NoResult THEN 0 ELSE Len(decodedParts.nodes)
        IN DecodeFromRange(newReplica.comm_d_new, sectorKey.comm_r, offset, offset, num_nodes)

RemoveEncodedDataCall ==
    /\ newReplica # NoResult
    /\ \E comm_d_new \in CommDInputs : RemoveEncodedData(comm_d_new)

NextUpdate ==
    \/ EncodeInto
    \/ DecodeFromCall
    \/ DecodeFromRangeCall
    \/ RemoveEncodedDataCall

SpecUpdate == InitUpdate /\ [][NextUpdate]_vars

\* decode_from was given the comm_d_new that encode_into returned.
DecodedWhole == decodedFile # NoResult /\ decodedFile.comm_d = newReplica.comm_d_new
\* The ranges decoded so far cover the sector.
DecodedInParts == decodedParts # NoResult /\ Len(decodedParts.nodes) = UpdateNodes

\* C7: after encode_into, decode_from returns the staged data, and decoding
\* with decode_from_range over consecutive node ranges of any sizes that cover
\* the sector gives the output of the whole-sector decode.
C7_DecodeRestoresStaged ==
    /\ DecodedWhole => decodedFile.nodes = newStaged
    /\ (DecodedWhole /\ DecodedInParts) => decodedParts.nodes = decodedFile.nodes

\* The sector decoded whole and in three ranges of unequal sizes.
C7_Witness ==
    /\ DecodedWhole
    /\ DecodedInParts
    /\ decodedParts.parts = 3
    /\ decodedParts.nodes = decodedFile.nodes
    /\ decodedFile.nodes = newStaged

\* C8: after encode_into, remove_encoded_data applied to the new replica with
\* the staged data gives the sector-key replica as it was before the upgrade.
C8_RemoveRestoresSectorKey ==
    (removedFile # NoResult /\ removedFile.comm_d = newReplica.comm_d_new)
        => removedFile.nodes = sectorKey.nodes

\* The data removed from a replica that differs from the sector key.
C8_Witness ==
    /\ removedFile # NoResult
    /\ removedFile.comm_d = newReplica.comm_d_new
    /\ newReplica.nodes # sectorKey.nodes
    /\ removedFile.nodes = sectorKey.nodes

(***************************************************************************)
(* Cache validation: validate_cache_for_precommit_phase2 and               *)
(* validate_cache_for_commit.                                              *)
(***************************************************************************)
\* The cache dir of the sector and the stores a sealing run leaves in it.
CachePath == "cache"
LayerIds == {"layer-" \o ToString(i) : i \in 1..LAYERS}
LabelConfigs == [i \in 1..LAYERS |->
                    [path |-> CachePath, id |-> "layer-" \o ToString(i), size |-> StoreSize]]
TreeConfig(id) == [path |-> CachePath, id |-> id, size |-> StoreSize]
\* Tree shape of the sector: one base tree.
ValidatedTree == [Arity |-> 8, SubTreeArity |-> 0, TopTreeArity |-> 0]
BINARY_ARITY == 2
OCT_ARITY == 8

\* replica_path.as_ref().exists()
ReplicaExists == sealedReplica.present
\* metadata.len() > 0
ReplicaNotEmpty(len) == len > 0

\* Labels::verify_stores(callback, cache_dir): the callback on the config of
\* every layer in order, rebased on cache_dir; the first failure is returned.
RECURSIVE VerifyStores(_, _)
VerifyStores(labels, required_configs) ==
    IF labels = <<>> THEN "ok"
    ELSE LET first == VerifyStoreOutcome("disk", Head(labels), BINARY_ARITY, required_configs)
         IN IF first # "ok" THEN first \o " " \o Head(labels).id
            ELSE VerifyStores(Tail(labels), required_configs)

\* verify_store on a tree store, the error naming the store
VerifyTree(kind, id, arity, required_configs) ==
    LET outcome == VerifyStoreOutcome(kind, TreeConfig(id), arity, required_configs)
    IN IF outcome = "ok" THEN "ok" ELSE outcome \o " " \o id

\* The first failing step of a sequence of checks, or "ok".
RECURSIVE FirstFailure(_)
FirstFailure(steps) ==
    IF steps = <<>> THEN "ok"
    ELSE IF Head(steps) # "ok" THEN Head(steps)
    ELSE FirstFailure(Tail(steps))

ValidateCacheForPrecommitPhase2Outcome ==
    FirstFailure(<<
        IF ReplicaExists THEN "ok" ELSE "missing replica",
        VerifyStores(LabelConfigs, GetBaseTreeCount(ValidatedTree)),
        VerifyTree("disk", "tree-d", BINARY_ARITY, GetBaseTreeCount(ValidatedTree)) >>)

\* util::get_p_aux / util::get_t_aux: an error when the file cannot be read
GetAux(name) == IF name \in auxFiles THEN "ok" ELSE "missing " \o name

ValidateCacheForCommitOutcome ==
    FirstFailure(<<
        IF ReplicaExists THEN "ok" ELSE "missing replica",
        IF ReplicaNotEmpty(sealedReplica.len) THEN "ok" ELSE "empty replica",
        GetAux("p_aux"),
        GetAux("t_aux"),
        VerifyStores(LabelConfigs, GetBaseTreeCount(ValidatedTree)),
        VerifyTree("disk", "tree-d", BINARY_ARITY, GetBaseTreeCount(ValidatedTree)),
        VerifyTree("disk", "tree-c", OCT_ARITY, GetBaseTreeCount(ValidatedTree)),
        VerifyTree("level_cache", "tree-r-last", OCT_ARITY,
                   GetBaseTreeCount([Arity |-> OCT_ARITY, SubTreeArity |-> 0,
                                     TopTreeArity |-> 0])) >>)

ValidateCacheForPrecommitPhase2 ==
    /\ validateCall = NoCall
    /\ validateCall' = [fn |-> "validate_cache_for_precommit_phase2"]
    /\ validateResult' = ResultOf(ValidateCacheForPrecommitPhase2Outcome)
    /\ UNCHANGED <<sealedReplica, auxFiles, files>>
    /\ UNCHANGED notValidateVars

ValidateCacheForCommit ==
    /\ validateCall = NoCall
    /\ validateCall' = [fn |-> "validate_cache_for_commit"]
    /\ validateResult' = ResultOf(ValidateCacheForCommitOutcome)
    /\ UNCHANGED <<sealedReplica, auxFiles, files>>
    /\ UNCHANGED notValidateVars

ReturnValidate ==
    /\ validateCall # NoCall
    /\ validateCall' = NoCall
    /\ validateResult' = NoResult
    /\ UNCHANGED <<sealedReplica, auxFiles, files>>
    /\ UNCHANGED notValidateVars

\* What sealing, or damage, does to the sector's files between validations.
CacheStoreIds == LayerIds \cup {"tree-d", "tree-c", "tree-r-last"}
ReplicaLens == {0, SealNodes * NODE_SIZE}

WriteCacheStore(id, nodes) ==
    /\ validateCall = NoCall
    /\ LET path == DataPath(CachePath, id)
       IN /\ IF Exists(path) THEN files[path] # nodes ELSE TRUE
          /\ files' = [q \in DOMAIN files \cup {path} |->
                          IF q = path THEN nodes ELSE files[q]]
    /\ UNCHANGED <<sealedReplica, auxFiles, validateCall, validateResult>>
    /\ UNCHANGED notValidateVars

RemoveCacheStore(id) ==
    /\ validateCall = NoCall
    /\ Exists(DataPath(CachePath, id))
    /\ files' = [q \in DOMAIN files \ {DataPath(CachePath, id)} |-> files[q]]
    /\ UNCHANGED <<sealedReplica, auxFiles, validateCall, validateResult>>
    /\ UNCHANGED notValidateVars

WriteReplica(len) ==
    /\ validateCall = NoCall
    /\ sealedReplica # [present |-> TRUE, len |-> len]
    /\ sealedReplica' = [present |-> TRUE, len |-> len]
    /\ UNCHANGED <<auxFiles, validateCall, validateResult, files>>
    /\ UNCHANGED notValidateVars

WriteAux(name) ==
    /\ validateCall = NoCall
    /\ name \notin auxFiles
    /\ auxFiles' = auxFiles \cup {name}
    /\ UNCHANGED <<sealedReplica, validateCall, validateResult, files>>
    /\ UNCHANGED notValidateVars

InitValidate ==
    /\ IdleUnseal
    /\ IdleStore
    /\ IdleSeal
    /\ IdlePost
    /\ IdleAggregate
    /\ IdleUpdate
    /\ IdleData
    /\ IdlePiece
    /\ IdlePartition
    /\ IdleWinning
    /\ IdleCommit
    /\ IdleChallenges
    /\ IdleOutput
    /\ IdleThreads
    /\ sealedReplica = NoReplica
    /\ auxFiles = {}
    /\ validateCall = NoCall
    /\ validateResult = NoResult

WriteCacheStoreCall == \E id \in CacheStoreIds, nodes \in FileNodes : WriteCacheStore(id, nodes)
RemoveCacheStoreCall == \E id \in CacheStoreIds : RemoveCacheStore(id)
WriteReplicaCall == \E len \in ReplicaLens : WriteReplica(len)
WriteAuxCall == \E name \in {"p_aux", "t_aux"} : WriteAux(name)

NextValidate ==
    \/ WriteCacheStoreCall
    \/ RemoveCacheStoreCall
    \/ WriteReplicaCall
    \/ WriteAuxCall
    \/ ValidateCacheForPrecommitPhase2
    \/ ValidateCacheForCommit
    \/ ReturnValidate

SpecValidate == InitValidate /\ [][NextValidate]_vars

\* The store's file is in the cache dir and holds the nodes its kind requires.
StoreIntact(kind, id, arity) ==
    /\ Exists(DataPath(CachePath, id))
    /\ IsConsistent(kind, files[DataPath(CachePath, id)], StoreSize, arity)

ReplicaUsable == sealedReplica.present /\ sealedReplica.len > 0
LabelsAndTreeDIntact ==
    /\ \A id \in LayerIds : StoreIntact("disk", id, BINARY_ARITY)
    /\ StoreIntact("disk", "tree-d", BINARY_ARITY)
CommitStoresIntact ==
    /\ LabelsAndTreeDIntact
    /\ {"p_aux", "t_aux"} \subseteq auxFiles
    /\ StoreIntact("disk", "tree-c", OCT_ARITY)
    /\ StoreIntact("level_cache", "tree-r-last", OCT_ARITY)

Validated == validateResult.kind = "ok"

\* C11: each validation returns Ok exactly when the replica exists and is not
\* empty and every store it is responsible for is present and consistent
\* (labels and tree_d; for commit also p_aux, t_aux, tree_c, tree_r_last),
\* and an error otherwise.
C11_ValidationFailsFast ==
    /\ validateCall = [fn |-> "validate_cache_for_precommit_phase2"] =>
           /\ Validated <=> (ReplicaUsable /\ LabelsAndTreeDIntact)
           /\ ~Validated => validateResult.kind = "err"
    /\ validateCall = [fn |-> "validate_cache_for_commit"] =>
           /\ Validated <=> (ReplicaUsable /\ CommitStoresIntact)
           /\ ~Validated => validateResult.kind = "err"

\* What the commit validation does, and the phase-2 validation does not:
\* the verdict with the replica's length taken into account.
CommitValidationFailsFast ==
    validateCall = [fn |-> "validate_cache_for_commit"] =>
        /\ Validated <=> (ReplicaUsable /\ CommitStoresIntact)
        /\ ~Validated => validateResult.kind = "err"

\* What the phase-2 validation does: the verdict with the replica's existence
\* alone taken into account.
Phase2ValidationChecksExistence ==
    validateCall = [fn |-> "validate_cache_for_precommit_phase2"] =>
        /\ Validated <=> (sealedReplica.present /\ LabelsAndTreeDIntact)
        /\ ~Validated => validateResult.kind = "err"

\* The phase-2 validation accepting an empty replica.
EmptyReplicaAcceptedForPhase2 ==
    /\ validateCall = [fn |-> "validate_cache_for_precommit_phase2"]
    /\ sealedReplica = [present |-> TRUE, len |-> 0]
    /\ LabelsAndTreeDIntact
    /\ Validated

(***************************************************************************)
(* Sector data: the Data wrapper around content in memory or on disk.      *)
(***************************************************************************)
\* Longest content of a slice, a mapping or the backing file, in bytes.
MaxDataLen == 2

ByteValues == {0, 1}
Contents == UNION {[1..n -> ByteValues] : n \in 0..MaxDataLen}
\* The path a Data may be bound to.
SectorPath == "sealed-file"

Ok == [kind |-> "ok"]
Err(message) == [kind |-> "err", error |-> message]

SliceOf(raw) == [kind |-> "slice", bytes |-> raw]
MmapOf(mapped) == [kind |-> "mmap", bytes |-> mapped]

\* impl From<&mut [u8]> for Data
DataFromSlice(raw) == [raw |-> SliceOf(raw), path |-> NoPath, len |-> Len(raw)]
\* impl From<(MmapMut, PathBuf)> for Data
DataFromMmap(mapped, path) == [raw |-> MmapOf(mapped), path |-> path, len |-> Len(mapped)]
\* Data::from_path
DataFromPath(path) == [raw |-> NoRaw, path |-> path, len |-> 0]
\* Data::new
DataNew(raw, path) == [raw |-> SliceOf(raw), path |-> path, len |-> Len(raw)]
\* Data::empty
DataEmpty == [raw |-> NoRaw, path |-> NoPath, len |-> 0]

\* match self.raw { Some(..) => {} ... }; the variant without the arm
\* would restore from the path in every case
RawIsSomeNever(raw) == FALSE
RawIsSome(raw) == raw # NoRaw

\* ensure!(self.path.is_some(), "Missing path")
PathIsSomeUnchecked(path) == TRUE
PathIsSome(path) == path # NoPath

\* if let Some(ref p) = self.path, in drop_data
HasBackingPathUnchecked(path) == TRUE
HasBackingPath(path) == path # NoPath

\* The file a path names: only SectorPath names one.
FileAt(path) == IF path = SectorPath THEN disk ELSE NoDiskFile

\* MmapOptions::map_mut of `len` bytes of a file: the bytes of the file, and
\* zeros past its end.
MapMut(file_bytes, len) ==
    [i \in 1..len |-> IF i <= Len(file_bytes) THEN file_bytes[i] ELSE 0]

\* data.len() of a mapping, stored in self.len
MappingLenStale(mapped) == 0
MappingLen(mapped) == Len(mapped)

\* MmapMut::flush: the bytes of the mapping that lie inside the file reach it
Flush(file, mapped) ==
    [exists |-> file.exists,
     bytes |-> [i \in 1..Len(file.bytes) |->
                   IF i <= Len(mapped) THEN mapped[i] ELSE file.bytes[i]]]

Outcome(d, r, io) == [data |-> d, result |-> r, io |-> io]

\* ensure_data: the Data, the result and the file operations it leaves
EnsureDataOutcome(d, can_map) ==
    IF RawIsSome(d.raw) THEN Outcome(d, Ok, <<>>)
    ELSE IF ~PathIsSome(d.path) THEN Outcome(d, Err("Missing path"), <<>>)
    ELSE IF ~FileAt(d.path).exists THEN Outcome(d, Err("could not open path"), <<"open">>)
    ELSE IF ~can_map THEN Outcome(d, Err("could not mmap path"), <<"open", "mmap">>)
    ELSE LET mapped == MapMut(FileAt(d.path).bytes, Len(FileAt(d.path).bytes))
         IN Outcome([raw |-> MmapOf(mapped), path |-> d.path, len |-> MappingLen(mapped)],
                    Ok, <<"open", "mmap">>)

\* ensure_data_of_len(len)
EnsureDataOfLenOutcome(d, len, can_map) ==
    IF RawIsSome(d.raw) THEN Outcome(d, Ok, <<>>)
    ELSE IF ~PathIsSome(d.path) THEN Outcome(d, Err("Missing path"), <<>>)
    ELSE IF ~FileAt(d.path).exists THEN Outcome(d, Err("could not open path"), <<"open">>)
    ELSE IF ~can_map THEN Outcome(d, Err("could not mmap path"), <<"open", "mmap">>)
    ELSE LET mapped == MapMut(FileAt(d.path).bytes, len)
         IN IF len # MappingLen(mapped)
            THEN Outcome(d, Err("data length mismatch"), <<"open", "mmap">>)
            ELSE Outcome([raw |-> MmapOf(mapped), path |-> d.path,
                          len |-> MappingLen(mapped)],
                         Ok, <<"open", "mmap">>)

\* as_ref / as_mut: the slice handed out, or the panic
AccessZeroed(d) == [kind |-> "slice", bytes |-> [i \in 1..d.len |-> 0]]
Access(d) ==
    IF d.raw # NoRaw THEN [kind |-> "slice", bytes |-> d.raw.bytes]
    ELSE [kind |-> "panic", message |-> "figure it out"]

\* The length of the content when an operation leaves it present.
Materialized(d) == IF d.raw # NoRaw THEN Len(d.raw.bytes) ELSE materializedLen

EnsureData(can_map) ==
    /\ dataCall = NoCall
    /\ LET out == EnsureDataOutcome(sectorData, can_map)
       IN /\ sectorData' = out.data
          /\ dataResult' = out.result
          /\ ioLog' = out.io
          /\ materializedLen' = Materialized(out.data)
    /\ dataCall' = [fn |-> "ensure_data", len |-> 0, before |-> sectorData]
    /\ UNCHANGED <<disk, dropped>>
    /\ UNCHANGED notDataVars

EnsureDataOfLen(len, can_map) ==
    /\ dataCall = NoCall
    /\ LET out == EnsureDataOfLenOutcome(sectorData, len, can_map)
       IN /\ sectorData' = out.data
          /\ dataResult' = out.result
          /\ ioLog' = out.io
          /\ materializedLen' = Materialized(out.data)
    /\ dataCall' = [fn |-> "ensure_data_of_len", len |-> len, before |-> sectorData]
    /\ UNCHANGED <<disk, dropped>>
    /\ UNCHANGED notDataVars

DropData(flush_ok) ==
    /\ dataCall = NoCall
    /\ dataCall' = [fn |-> "drop_data", len |-> 0, before |-> sectorData]
    /\ IF HasBackingPath(sectorData.path)
       THEN IF sectorData.raw.kind = "mmap"
            THEN IF flush_ok
                 THEN /\ disk' = Flush(disk, sectorData.raw.bytes)
                      /\ sectorData' = [sectorData EXCEPT !.raw = NoRaw]
                      /\ dataResult' = Ok
                      /\ ioLog' = <<"flush">>
                 ELSE /\ dataResult' = Err("flush failed")
                      /\ ioLog' = <<"flush">>
                      /\ UNCHANGED <<sectorData, disk>>
            ELSE /\ sectorData' = [sectorData EXCEPT !.raw = NoRaw]
                 /\ dataResult' = Ok
                 /\ ioLog' = <<>>
                 /\ UNCHANGED disk
       ELSE /\ dataResult' = Ok
            /\ ioLog' = <<>>
            /\ UNCHANGED <<sectorData, disk>>
    /\ dropped' = IF sectorData.raw # NoRaw /\ sectorData'.raw = NoRaw
                  THEN sectorData ELSE dropped
    /\ UNCHANGED materializedLen
    /\ UNCHANGED notDataVars

AsRef ==
    /\ dataCall = NoCall
    /\ dataCall' = [fn |-> "as_ref", len |-> 0, before |-> sectorData]
    /\ dataResult' = Access(sectorData)
    /\ ioLog' = <<>>
    /\ UNCHANGED <<sectorData, disk, materializedLen, dropped>>
    /\ UNCHANGED notDataVars

\* as_mut, and the caller storing `byte` at `index` of the slice it was given
AsMut(index, byte) ==
    /\ dataCall = NoCall
    /\ dataCall' = [fn |-> "as_mut", len |-> 0, before |-> sectorData]
    /\ dataResult' = Access(sectorData)
    /\ ioLog' = <<>>
    /\ IF Access(sectorData).kind = "slice"
       THEN sectorData' =
                [sectorData EXCEPT !.raw.bytes =
                    [i \in 1..Len(sectorData.raw.bytes) |->
                        IF i = index THEN byte ELSE sectorData.raw.bytes[i]]]
       ELSE UNCHANGED sectorData
    /\ dropped' = IF Access(sectorData).kind = "slice" THEN NoCall ELSE dropped
    /\ UNCHANGED <<disk, materializedLen>>
    /\ UNCHANGED notDataVars

ReturnData ==
    /\ dataCall # NoCall
    /\ dataCall' = NoCall
    /\ dataResult' = NoResult
    /\ ioLog' = <<>>
    /\ UNCHANGED <<sectorData, disk, materializedLen, dropped>>
    /\ UNCHANGED notDataVars

\* The Data values the constructors give, with the file at SectorPath as it is.
Constructed(file) ==
    {DataFromSlice(raw) : raw \in Contents}
        \cup {DataNew(raw, SectorPath) : raw \in Contents}
        \cup {DataFromPath(SectorPath), DataEmpty}
        \cup (IF file.exists THEN {DataFromMmap(file.bytes, SectorPath)} ELSE {})

InitData ==
    /\ IdleUnseal
    /\ IdleStore
    /\ IdleSeal
    /\ IdlePost
    /\ IdleAggregate
    /\ IdleUpdate
    /\ IdleValidate
    /\ IdlePiece
    /\ IdlePartition
    /\ IdleWinning
    /\ IdleCommit
    /\ IdleChallenges
    /\ IdleOutput
    /\ IdleThreads
    /\ disk \in {NoDiskFile} \cup {[exists |-> TRUE, bytes |-> b] : b \in Contents}
    /\ sectorData \in Constructed(disk)
    /\ dataCall = NoCall
    /\ dataResult = NoResult
    /\ ioLog = <<>>
    /\ materializedLen = IF sectorData.raw # NoRaw THEN Len(sectorData.raw.bytes) ELSE 0
    /\ dropped = NoCall

EnsureDataCall == \E can_map \in BOOLEAN : EnsureData(can_map)
EnsureDataOfLenCall ==
    \E len \in 0..MaxDataLen, can_map \in BOOLEAN : EnsureDataOfLen(len, can_map)
DropDataCall == \E flush_ok \in BOOLEAN : DropData(flush_ok)
AsMutCall == \E index \in 1..MaxDataLen, byte \in ByteValues : AsMut(index, byte)

NextData ==
    \/ EnsureDataCall
    \/ EnsureDataOfLenCall
    \/ DropDataCall
    \/ AsRef
    \/ AsMutCall
    \/ ReturnData

SpecData == InitData /\ [][NextData]_vars

\* The operation being served and the Data as it found it.
Ensuring == dataCall # NoCall /\ dataCall.fn \in {"ensure_data", "ensure_data_of_len"}
WasPresent == dataCall.before.raw # NoRaw
WasUnbound == dataCall.before.path = NoPath

\* C12: ensure_data and ensure_data_of_len on a Data whose content is
\* present return Ok and leave the content, the path and len() as they were.
C12_EnsureIdempotent ==
    (Ensuring /\ WasPresent) =>
        /\ dataResult = Ok
        /\ sectorData.raw = dataCall.before.raw
        /\ sectorData.path = dataCall.before.path
        /\ sectorData.len = dataCall.before.len

\* ensure_data_of_len on content that was written through as_mut and is held
\* with a backing path: nothing is re-read.
C12_Witness ==
    /\ dataCall # NoCall
    /\ dataCall.fn = "ensure_data_of_len"
    /\ WasPresent
    /\ ~WasUnbound
    /\ disk.exists
    /\ dataCall.before.raw.bytes # disk.bytes
    /\ dataResult = Ok
    /\ sectorData = dataCall.before

\* The length ensure_data_of_len observes: that of the content held, or that
\* of the backing file it maps.
ObservedLen ==
    IF WasPresent THEN Len(dataCall.before.raw.bytes) ELSE Len(disk.bytes)
LengthObserved == WasPresent \/ (~WasUnbound /\ disk.exists /\ "mmap" \in {ioLog[i] : i \in DOMAIN ioLog})
MappingFailed == dataResult = Err("could not mmap path")

\* C13 as stated: ensure_data_of_len(len) returns the length-mismatch error
\* whenever the observed length differs from len, and whenever it returns Ok
\* len() equals len.
C13_LengthMismatchReported ==
    (dataCall # NoCall /\ dataCall.fn = "ensure_data_of_len") =>
        /\ (LengthObserved /\ ~MappingFailed /\ ObservedLen # dataCall.len)
               => dataResult = Err("data length mismatch")
        /\ dataResult = Ok => sectorData.len = dataCall.len

\* What the code gives instead: content that was absent is mapped with the
\* requested length whatever the file's length, and the error never occurs.
RestoredWithRequestedLen ==
    (dataCall # NoCall /\ dataCall.fn = "ensure_data_of_len") =>
        /\ dataResult # Err("data length mismatch")
        /\ (dataResult = Ok /\ ~WasPresent) =>
               /\ sectorData.len = dataCall.len
               /\ sectorData.raw.bytes = MapMut(disk.bytes, dataCall.len)

\* A file shorter than the requested length, mapped without an error.
ShortFileAccepted ==
    /\ dataCall # NoCall
    /\ dataCall.fn = "ensure_data_of_len"
    /\ ~WasPresent
    /\ Len(disk.bytes) < dataCall.len
    /\ dataResult = Ok

\* C14: with the content absent and no path bound, ensure_data and
\* ensure_data_of_len return the missing-path error, perform no file
\* operation and leave the Data as it was.
C14_MissingPathWithoutIO ==
    (Ensuring /\ ~WasPresent /\ WasUnbound) =>
        /\ dataResult = Err("Missing path")
        /\ ioLog = <<>>
        /\ sectorData = dataCall.before

\* ensure_data_of_len on Data::empty() while a file of that length exists.
C14_Witness ==
    /\ dataCall # NoCall
    /\ dataCall.fn = "ensure_data_of_len"
    /\ dataCall.before = DataEmpty
    /\ disk.exists
    /\ Len(disk.bytes) = dataCall.len
    /\ dataResult = Err("Missing path")
    /\ sectorData = DataEmpty

\* The bytes of the mapping that lie inside the file are in the file.
FlushedToDisk(mapped) ==
    \A i \in 1..Len(mapped) : i <= Len(disk.bytes) => disk.bytes[i] = mapped[i]

\* C15: drop_data with a path bound releases the content, after flushing it
\* when it is a mapping, and keeps it when the flush fails; with no path bound
\* it changes nothing.  No operation makes present content without a path
\* absent.
C15_DropKeepsUnrecoverable ==
    /\ (dataCall # NoCall /\ dataCall.fn = "drop_data") =>
           IF WasUnbound
           THEN sectorData = dataCall.before /\ dataResult = Ok /\ ioLog = <<>>
           ELSE IF dataResult = Ok
                THEN /\ sectorData = [dataCall.before EXCEPT !.raw = NoRaw]
                     /\ dataCall.before.raw.kind = "mmap" =>
                            /\ ioLog = <<"flush">>
                            /\ FlushedToDisk(dataCall.before.raw.bytes)
                ELSE /\ sectorData = dataCall.before
                     /\ dataCall.before.raw.kind = "mmap"
    /\ (dataCall # NoCall /\ WasPresent /\ WasUnbound) => sectorData.raw # NoRaw

\* A mapping with content dropped: flushed, released, len() kept.
C15_Witness ==
    /\ dataCall # NoCall
    /\ dataCall.fn = "drop_data"
    /\ dataCall.before.raw.kind = "mmap"
    /\ Len(dataCall.before.raw.bytes) = MaxDataLen
    /\ dataResult = Ok
    /\ sectorData.raw = NoRaw
    /\ disk.bytes = dataCall.before.raw.bytes

\* C16: len() is the length of the content when it is present, and the
\* length the content had when it was last present when it is absent (0 when
\* it never was).
C16_LenConsistent ==
    IF sectorData.raw # NoRaw
    THEN sectorData.len = Len(sectorData.raw.bytes)
    ELSE sectorData.len = materializedLen

\* A Data made by from_path, restored from a file with content and dropped.
C16_Witness ==
    /\ dataCall # NoCall
    /\ dataCall.fn = "drop_data"
    /\ dataCall.before.raw.kind = "mmap"
    /\ sectorData.raw = NoRaw
    /\ sectorData.len = Len(disk.bytes)
    /\ sectorData.len > 0

\* C17: as_ref and as_mut on a Data whose content is absent panic and hand
\* out no slice; the Data is left as it was.
C17_AbsentAccessFails ==
    (dataCall # NoCall /\ dataCall.fn \in {"as_ref", "as_mut"} /\ ~WasPresent) =>
        /\ dataResult.kind = "panic"
        /\ sectorData = dataCall.before

\* as_ref after the content, once present, was released by drop_data.
C17_Witness ==
    /\ dataCall # NoCall
    /\ dataCall.fn = "as_ref"
    /\ ~WasPresent
    /\ dataCall.before.len > 0
    /\ dataResult.kind = "panic"

\* ensure_data restoring content that a drop_data released before it
RestoringDropped ==
    /\ dataCall # NoCall
    /\ dataCall.fn = "ensure_data"
    /\ ~WasPresent
    /\ dropped # NoCall
    /\ ~MappingFailed

SameAsDropped ==
    /\ dataResult = Ok
    /\ sectorData.raw # NoRaw
    /\ sectorData.raw.bytes = dropped.raw.bytes
    /\ sectorData.len = dropped.len

\* C26 as stated: for a Data with a backing path, whichever constructor made
\* it and whatever was written through as_mut, ensure_data after drop_data
\* makes the content present again with the bytes and the len() it had
\* immediately before the drop, in every drop / restore cycle.
C26_DropThenEnsureRestores == RestoringDropped => SameAsDropped

\* Content held in a mapping of the whole backing file comes back as it was.
MappedContentRestored ==
    (RestoringDropped /\ dropped.raw.kind = "mmap"
        /\ Len(dropped.raw.bytes) = Len(disk.bytes)) => SameAsDropped

\* Data::new(slice, path): the content written to the slice is gone after
\* drop_data, and ensure_data hands out the bytes of the file instead.
SliceContentLost ==
    /\ RestoringDropped
    /\ dropped.raw.kind = "slice"
    /\ dataResult = Ok
    /\ sectorData.len = dropped.len
    /\ sectorData.raw.bytes # dropped.raw.bytes

(***************************************************************************)
(* The piece size check in front of add_piece, write_and_preprocess and    *)
(* generate_piece_commitment.                                              *)
(***************************************************************************)
PieceFns == {"add_piece", "write_and_preprocess", "generate_piece_commitment"}

\* Sizes handed to the functions: the valid ones, their neighbours, 0 and 1.
PieceSizesChecked ==
    {0, 1} \cup UNION {{size - 1, size, size + 1} : size \in ValidPieceSizes(MINIMUM_PIECE_SIZE)}
\* piece_lengths of the pieces already in the target.
PieceLengthInputs == {<<>>} \cup {<<size>> : size \in ValidPieceSizes(MINIMUM_PIECE_SIZE)}

PieceErr(message) == [kind |-> "err", error |-> message]

\* add_piece: result, bytes read from the source, bytes written to the target
AddPieceOutcome(source_len, piece_size, piece_lengths) ==
    IF ~EnsurePieceSize(piece_size)
    THEN [result |-> PieceErr("InvalidPieceSize"), read |-> 0, written |-> 0]
    ELSE LET written_bytes == SumPieceBytesWithAlignment(piece_lengths)
             piece_alignment == GetPieceAlignment(written_bytes, piece_size)
             left == ToPaddedBytes(piece_alignment.left_bytes)
             copied == ToPaddedBytes(source_len)
             n == ToUnpaddedBytes(copied)
             right == ToPaddedBytes(piece_alignment.right_bytes)
         IN IF n = 0
            THEN [result |-> PieceErr("add_piece: read 0 bytes before EOF from source"),
                  read |-> source_len, written |-> left + copied]
            ELSE IF n # piece_size
            THEN [result |-> PieceErr("add_piece: invalid bytes amount written"),
                  read |-> source_len, written |-> left + copied]
            ELSE [result |-> [kind |-> "ok", size |-> n,
                              written |-> piece_alignment.left_bytes
                                            + piece_alignment.right_bytes + piece_size],
                  read |-> source_len, written |-> left + copied + right]

\* write_and_preprocess: add_piece with no piece before it
WriteAndPreprocessOutcome(source_len, piece_size) ==
    AddPieceOutcome(source_len, piece_size, <<>>)

\* generate_piece_commitment: the source is read through the fr32 reader, up
\* to the padded piece size; nothing is written
GeneratePieceCommitmentOutcome(source_len, piece_size) ==
    IF ~EnsurePieceSize(piece_size)
    THEN [result |-> PieceErr("InvalidPieceSize"), read |-> 0, written |-> 0]
    ELSE LET read == IF source_len < piece_size THEN source_len ELSE piece_size
         IN [result |-> IF read = piece_size
                        THEN [kind |-> "ok", size |-> piece_size, written |-> 0]
                        ELSE PieceErr("source ended before piece_size bytes"),
             read |-> read, written |-> 0]

PieceOutcome(fn, source_len, piece_size, piece_lengths) ==
    IF fn = "add_piece" THEN AddPieceOutcome(source_len, piece_size, piece_lengths)
    ELSE IF fn = "write_and_preprocess" THEN WriteAndPreprocessOutcome(source_len, piece_size)
    ELSE GeneratePieceCommitmentOutcome(source_len, piece_size)

PieceFunction(fn, source_len, piece_size, piece_lengths) ==
    /\ pieceCall = NoCall
    /\ pieceCall' = [fn |-> fn, source_len |-> source_len, piece_size |-> piece_size,
                     piece_lengths |-> piece_lengths]
    /\ LET out == PieceOutcome(fn, source_len, piece_size, piece_lengths)
       IN /\ pieceResult' = out.result
          /\ sourceRead' = out.read
          /\ targetWritten' = out.written
    /\ UNCHANGED notPieceVars

ReturnPiece ==
    /\ pieceCall # NoCall
    /\ pieceCall' = NoCall
    /\ pieceResult' = NoResult
    /\ sourceRead' = 0
    /\ targetWritten' = 0
    /\ UNCHANGED notPieceVars

InitPiece ==
    /\ IdleUnseal
    /\ IdleStore
    /\ IdleSeal
    /\ IdlePost
    /\ IdleAggregate
    /\ IdleUpdate
    /\ IdleValidate
    /\ IdleData
    /\ IdlePartition
    /\ IdleWinning
    /\ IdleCommit
    /\ IdleChallenges
    /\ IdleOutput
    /\ IdleThreads
    /\ pieceCall = NoCall
    /\ pieceResult = NoResult
    /\ sourceRead = 0
    /\ targetWritten = 0

\* The source holds no byte, the piece, one byte less or one byte more.
AddPieceChecked ==
    \E piece_size \in PieceSizesChecked, piece_lengths \in PieceLengthInputs :
        \E source_len \in {0, piece_size, piece_size + 1}
                             \cup (IF piece_size > 1 THEN {piece_size - 1} ELSE {}) :
            PieceFunction("add_piece", source_len, piece_size, piece_lengths)

WriteAndPreprocessChecked ==
    \E piece_size \in PieceSizesChecked :
        \E source_len \in {0, piece_size, piece_size + 1} :
            PieceFunction("write_and_preprocess", source_len, piece_size, <<>>)

GeneratePieceCommitmentChecked ==
    \E piece_size \in PieceSizesChecked :
        \E source_len \in {0, piece_size, piece_size + 1} :
            PieceFunction("generate_piece_commitment", source_len, piece_size, <<>>)

NextPiece ==
    \/ AddPieceChecked
    \/ WriteAndPreprocessChecked
    \/ GeneratePieceCommitmentChecked
    \/ ReturnPiece

SpecPiece == InitPiece /\ [][NextPiece]_vars

\* The size the claim rejects: below 127 bytes, or not a power of two after
\* bit padding (128 padded bytes for every 127).
RECURSIVE PowerOfTwoUpTo(_, _)
PowerOfTwoUpTo(n, p) == IF p >= n THEN p = n ELSE PowerOfTwoUpTo(n, 2 * p)
InvalidPieceSize(piece_size) ==
    \/ piece_size < 127
    \/ piece_size % 127 # 0
    \/ ~PowerOfTwoUpTo((piece_size \div 127) * 128, 1)

\* C18: with an unpadded piece size below 127 bytes, or a bit-padded size
\* that is no power of two, each of the three functions returns an error and
\* has read no byte of the source and written no byte to the target.
C18_InvalidSizeRejectedFirst ==
    (pieceCall # NoCall /\ InvalidPieceSize(pieceCall.piece_size)) =>
        /\ pieceResult.kind = "err"
        /\ sourceRead = 0
        /\ targetWritten = 0

\* add_piece after a piece, with a full source of 255 bytes, rejected.
C18_Witness ==
    /\ pieceCall # NoCall
    /\ pieceCall.fn = "add_piece"
    /\ pieceCall.piece_size = (2 * MINIMUM_PIECE_SIZE) + 1
    /\ pieceCall.source_len = pieceCall.piece_size
    /\ pieceCall.piece_lengths # <<>>
    /\ pieceResult.kind = "err"
    /\ sourceRead = 0
    /\ targetWritten = 0

\* A valid piece is read and written.
ValidPieceProcessed ==
    /\ pieceCall # NoCall
    /\ pieceCall.fn = "write_and_preprocess"
    /\ pieceResult.kind = "ok"
    /\ sourceRead = pieceCall.piece_size
    /\ targetWritten > sourceRead

\* What add_piece itself decides about the bytes of the source (mod.rs
\* 399-427): it fails when the copy through the fr32 reader moved no byte or
\* a number of padded bytes whose unpadded amount differs from piece_size,
\* and the PieceInfo of a success carries that amount.  How many padded
\* bytes the reader emits for a source that ends inside an element is
\* decided in the fr32 crate.
AddPieceCountsCopiedBytes ==
    (pieceCall # NoCall /\ pieceCall.fn = "add_piece"
        /\ EnsurePieceSize(pieceCall.piece_size)) =>
        /\ pieceCall.source_len = 0 => pieceResult.kind = "err"
        /\ pieceCall.source_len > pieceCall.piece_size => pieceResult.kind = "err"
        /\ pieceResult.kind = "ok" =>
               /\ pieceResult.size = pieceCall.piece_size
               /\ ToUnpaddedBytes(ToPaddedBytes(pieceCall.source_len)) = pieceCall.piece_size

\* add_piece on a valid size with a source one byte short
ShortSourceOffered ==
    /\ pieceCall # NoCall
    /\ pieceCall.fn = "add_piece"
    /\ EnsurePieceSize(pieceCall.piece_size)
    /\ pieceCall.source_len = pieceCall.piece_size - 1

(***************************************************************************)
(* Window PoSt in partitions: one proof per chunk of sectors, merged.      *)
(***************************************************************************)
\* Sectors proven in one round, and sectors per partition.
MaxTotalSectors == 3
MaxSectorCount == 2

\* replica_sectors: the sector ids in the order of the BTreeMap
ReplicaSectors(total) == [i \in 1..total |-> i]

\* get_num_partition_for_fallback_post: ceil(total / sector_count)
GetNumPartitionForFallbackPost(sector_count, total) ==
    ((total + sector_count) - 1) \div sector_count

ChunksNthFirst(sectors, size, n) ==
    SubSeq(sectors, 1, IF size < Len(sectors) THEN size ELSE Len(sectors))
\* sectors.chunks(size).nth(n)
ChunksNth(sectors, size, n) ==
    SubSeq(sectors, (n * size) + 1,
           IF (n + 1) * size < Len(sectors) THEN (n + 1) * size ELSE Len(sectors))

\* generate_single_vanilla_proof of every sector of a chunk
VanillaProofs(randomness, sector_ids) ==
    [i \in 1..Len(sector_ids) |->
        [sector_id |-> sector_ids[i], comm_r |-> CommROf(sector_ids[i]),
         openings |-> VanillaProof(randomness, sector_ids[i])]]

\* A partition with fewer sectors than sector_count is filled by repeating
\* its last sector.
PadPartition(slots, sector_count) ==
    [i \in 1..sector_count |-> IF i <= Len(slots) THEN slots[i] ELSE slots[Len(slots)]]

\* The public inputs of one partition: comm_r and challenged leaves per slot.
PartitionInputs(randomness, partition_index, sectors, sector_count) ==
    [partition |-> partition_index,
     slots |-> PadPartition([i \in 1..Len(sectors) |->
                                [comm_r |-> sectors[i].comm_r,
                                 leaves |-> [j \in 1..ChallengesPerSector |->
                                                ChallengedLeaf(randomness,
                                                               sectors[i].sector_id, j)]]],
                            sector_count)]

\* generate_single_window_post_with_vanilla: the proof of one partition is
\* bound to its public inputs and holds when every opening is that of the
\* committed leaf.
GenerateSingleWindowPostWithVanilla(sector_count, randomness, vanilla_proofs, partition_index) ==
    [inputs |-> PartitionInputs(randomness, partition_index, vanilla_proofs, sector_count),
     sound |-> \A i \in 1..Len(vanilla_proofs), j \in 1..ChallengesPerSector :
                   LET opening == vanilla_proofs[i].openings[j]
                   IN /\ opening.leaf = ChallengedLeaf(randomness, vanilla_proofs[i].sector_id, j)
                      /\ opening.value = CommittedLeaf(vanilla_proofs[i].comm_r, opening.leaf)]

\* merge_window_post_partition_proofs: the proofs one after the other
RECURSIVE MergeWindowPostPartitionProofs(_)
MergeWindowPostPartitionProofs(proofs) ==
    IF proofs = <<>> THEN <<>>
    ELSE <<Head(proofs)>> \o MergeWindowPostPartitionProofs(Tail(proofs))

\* The public sectors of partition k, as the verifier groups them.
PartitionSectors(pub_sectors, sector_count, k) ==
    [i \in 1..(IF (k + 1) * sector_count <= Len(pub_sectors) THEN sector_count
               ELSE Len(pub_sectors) - (k * sector_count)) |->
        pub_sectors[(k * sector_count) + i]]

\* verify_window_post: the merged proof holds one proof per partition of the
\* public replicas, each for the inputs of its partition.
VerifyMergedWindowPost(sector_count, randomness, total, proof) ==
    LET partitions == GetNumPartitionForFallbackPost(sector_count, total)
        pub_sectors == [i \in 1..total |-> [sector_id |-> i, comm_r |-> CommROf(i)]]
    IN /\ Len(proof) = partitions
       /\ \A k \in 0..(partitions - 1) :
              /\ proof[k + 1].sound
              /\ proof[k + 1].inputs =
                     PartitionInputs(randomness, k,
                                     PartitionSectors(pub_sectors, sector_count, k),
                                     sector_count)

\* One turn of the loop over the partitions.
GeneratePartitionProof ==
    /\ finalProof = NoResult
    /\ Len(partitionProofs) < GetNumPartitionForFallbackPost(sectorCount, totalSectors)
    /\ LET partition_index == Len(partitionProofs)
           sector_ids == ChunksNth(ReplicaSectors(totalSectors), sectorCount, partition_index)
           vanilla_proofs == VanillaProofs(partitionRandomness, sector_ids)
       IN partitionProofs' =
              Append(partitionProofs,
                     GenerateSingleWindowPostWithVanilla(sectorCount, partitionRandomness,
                                                         vanilla_proofs, partition_index))
    /\ UNCHANGED <<totalSectors, sectorCount, partitionRandomness, finalProof, finalVerified>>
    /\ UNCHANGED notPartitionVars

MergePartitionProofs ==
    /\ finalProof = NoResult
    /\ Len(partitionProofs) = GetNumPartitionForFallbackPost(sectorCount, totalSectors)
    /\ finalProof' = [kind |-> "ok", proof |-> MergeWindowPostPartitionProofs(partitionProofs)]
    /\ UNCHANGED <<totalSectors, sectorCount, partitionRandomness, partitionProofs,
                   finalVerified>>
    /\ UNCHANGED notPartitionVars

VerifyFinalProof(randomness) ==
    /\ finalProof # NoResult
    /\ finalVerified = NoResult
    /\ finalVerified' =
           [kind |-> "ok", randomness |-> randomness,
            valid |-> VerifyMergedWindowPost(sectorCount, randomness, totalSectors,
                                             finalProof.proof)]
    /\ UNCHANGED <<totalSectors, sectorCount, partitionRandomness, partitionProofs,
                   finalProof>>
    /\ UNCHANGED notPartitionVars

InitPartition ==
    /\ IdleUnseal
    /\ IdleStore
    /\ IdleSeal
    /\ IdlePost
    /\ IdleAggregate
    /\ IdleUpdate
    /\ IdleValidate
    /\ IdleData
    /\ IdlePiece
    /\ IdleWinning
    /\ IdleCommit
    /\ IdleChallenges
    /\ IdleOutput
    /\ IdleThreads
    /\ totalSectors \in 1..MaxTotalSectors
    /\ sectorCount \in 1..MaxSectorCount
    /\ partitionRandomness \in Randomness
    /\ partitionProofs = <<>>
    /\ finalProof = NoResult
    /\ finalVerified = NoResult

VerifyFinalProofCall == \E randomness \in Randomness : VerifyFinalProof(randomness)

NextPartition ==
    \/ GeneratePartitionProof
    \/ MergePartitionProofs
    \/ VerifyFinalProofCall

SpecPartition == InitPartition /\ [][NextPartition]_vars

\* verify_window_post was given the randomness of the proving round.
VerifiedForTheRound ==
    finalVerified # NoResult /\ finalVerified.randomness = partitionRandomness

\* C19: for every number of sectors and every sector_count, the merge of the
\* partition proofs of the chunks, taken in order, is accepted by
\* verify_window_post for the public replicas of all sectors.
C19_MergedPartitionsVerify == VerifiedForTheRound => finalVerified.valid

\* Three sectors in partitions of two: the second partition holds one sector.
C19_Witness ==
    /\ VerifiedForTheRound
    /\ totalSectors = 3
    /\ sectorCount = 2
    /\ Len(finalProof.proof) = 2
    /\ finalVerified.valid

\* Fewer sectors than a partition holds.
SinglePaddedPartitionVerifies ==
    /\ VerifiedForTheRound
    /\ totalSectors < sectorCount
    /\ finalVerified.valid

(***************************************************************************)
(* Winning PoSt: the choice of the challenged sectors.                     *)
(***************************************************************************)
\* Eligible sectors of a prover, and sectors challenged in one round.
MaxEligibleSectors == 3
MaxChallengedSectors == 2

ProverIds == {1, 2}
\* Width of the integer read from the digest.
ChallengeBits == 16

\* The digest of (randomness, prover id, n), read as an unsigned integer.
ChallengeDigest(randomness, prover_id, n) ==
    ((randomness * 40503) + (prover_id * 25717) + (n * 9973) + 12345) % (2 ^ ChallengeBits)

ChallengedSectorUnreduced(digest, sector_set_len) == digest
\* The digest reduced to an index into the eligible sectors.
ChallengedSector(digest, sector_set_len) == digest % sector_set_len

\* generate_winning_post_sector_challenge(config, randomness, sector_set_size, prover_id)
GenerateWinningPostSectorChallengeOutcome(sector_count, randomness, sector_set_size, prover_id) ==
    IF sector_set_size = 0
    THEN [kind |-> "err", error |-> "empty sector set is invalid"]
    ELSE [kind |-> "ok",
          sectors |-> [i \in 1..sector_count |->
                          ChallengedSector(ChallengeDigest(randomness, prover_id, i - 1),
                                           sector_set_size)]]

GenerateWinningPostSectorChallenge(sector_count, randomness, sector_set_size, prover_id) ==
    /\ winningCall = NoCall
    /\ winningCall' = [fn |-> "generate_winning_post_sector_challenge",
                       sector_count |-> sector_count, randomness |-> randomness,
                       sector_set_size |-> sector_set_size, prover_id |-> prover_id]
    /\ winningResult' = GenerateWinningPostSectorChallengeOutcome(
                            sector_count, randomness, sector_set_size, prover_id)
    /\ UNCHANGED lastChallenge
    /\ UNCHANGED notWinningVars

ReturnWinning ==
    /\ winningCall # NoCall
    /\ lastChallenge' = [fn |-> winningCall.fn, args |-> winningCall, result |-> winningResult]
    /\ winningCall' = NoCall
    /\ winningResult' = NoResult
    /\ UNCHANGED notWinningVars

InitWinning ==
    /\ IdleUnseal
    /\ IdleStore
    /\ IdleSeal
    /\ IdlePost
    /\ IdleAggregate
    /\ IdleUpdate
    /\ IdleValidate
    /\ IdleData
    /\ IdlePiece
    /\ IdlePartition
    /\ IdleCommit
    /\ IdleChallenges
    /\ IdleOutput
    /\ IdleThreads
    /\ winningCall = NoCall
    /\ winningResult = NoResult
    /\ lastChallenge = NoCall

GenerateWinningPostSectorChallengeCall ==
    \E sector_count \in 0..MaxChallengedSectors, randomness \in Randomness,
       sector_set_size \in 0..MaxEligibleSectors, prover_id \in ProverIds :
        GenerateWinningPostSectorChallenge(sector_count, randomness, sector_set_size, prover_id)

NextWinning ==
    \/ GenerateWinningPostSectorChallengeCall
    \/ ReturnWinning

SpecWinning == InitWinning /\ [][NextWinning]_vars

SingleEligibleSectorChallenged ==
    /\ winningCall # NoCall
    /\ winningCall.sector_set_size = 1
    /\ winningCall.sector_count = 1
    /\ winningResult = [kind |-> "ok", sectors |-> <<0>>]

(***************************************************************************)
(* Seal commit driver: generate_proof (filecoin-proofs/tests/api.rs)       *)
(*                                                                         *)
(* The driver is translated from the test; what each API call requires of  *)
(* the cache directory and does to it follows the specification, the       *)
(* bodies being in api/seal.rs and storage-proofs-porep.                   *)
(***************************************************************************)
\* the label layers and the trees that are only needed for sealing
TempArtifacts == {"labels", "tree_d", "tree_c"}
\* what stays in the cache dir for PoSt
KeptArtifacts == {"p_aux", "t_aux", "tree_r_last"}
\* the synthetic challenge proofs written by generate_synth_proofs
SynthArtifacts == {"synth_proofs"}

\* validate_cache_for_commit passes on a complete cache
CommitCacheValid(cache) == (TempArtifacts \cup KeptArtifacts) \subseteq cache

\* generate_synth_proofs: proves the synthetic challenges from the cache
GenerateSynthProofsOutcome(cache) ==
    IF CommitCacheValid(cache)
    THEN [result |-> Ok, cache |-> cache \cup SynthArtifacts]
    ELSE [result |-> Err("cache"), cache |-> cache]

\* stacked::clear_cache_dir
ClearCacheDir(cache) == cache \ TempArtifacts
\* stacked::clear_synthetic_proofs
ClearSyntheticProofsDir(cache) == cache \ SynthArtifacts

\* what seal_commit_phase1 reads from the cache dir
SealCommitPhase1ReadsCache(synthetic) == TempArtifacts \cup KeptArtifacts
SealCommitPhase1Reads(synthetic) ==
    IF synthetic
    THEN SynthArtifacts \cup {"p_aux", "t_aux"}
    ELSE TempArtifacts \cup KeptArtifacts

SealCommitPhase1Outcome(synthetic, cache) ==
    IF SealCommitPhase1Reads(synthetic) \subseteq cache THEN Ok ELSE Err("cache")

\* one call of generate_proof: `?` ends the driver at the first error
CommitCall(fn, outcome, next) ==
    /\ commitTrace' = Append(commitTrace,
                             [fn |-> fn, cache |-> commitCache, result |-> outcome.result])
    /\ commitCache' = outcome.cache
    /\ commitPc' = IF outcome.result = Ok THEN next ELSE "failed"
    /\ UNCHANGED commitFeature
    /\ UNCHANGED notCommitVars

\* if config.feature_enabled(SyntheticPoRep) { generate_synth_proofs(..)?;
GenerateSynthProofs ==
    /\ commitPc = "start"
    /\ commitFeature
    /\ CommitCall("generate_synth_proofs", GenerateSynthProofsOutcome(commitCache),
                  "synth_generated")

\* } else { validate_cache_for_commit(..)?; }
ValidateCacheBeforeCommit ==
    /\ commitPc = "start"
    /\ ~commitFeature
    /\ CommitCall("validate_cache_for_commit",
                  [result |-> IF CommitCacheValid(commitCache) THEN Ok ELSE Err("cache"),
                   cache |-> commitCache],
                  "ready")

\* clear_cache(cache_dir_path)?: right after generate_synth_proofs with the
\* feature, after seal_commit_phase1 without it
ClearCache ==
    /\ \/ commitPc = "synth_generated" /\ commitFeature
       \/ commitPc = "committed" /\ ~commitFeature
    /\ CommitCall("clear_cache", [result |-> Ok, cache |-> ClearCacheDir(commitCache)],
                  IF commitPc = "synth_generated" THEN "ready" ELSE "done")

\* let phase1_output = seal_commit_phase1(..)?;
SealCommitPhase1 ==
    /\ commitPc = "ready"
    /\ CommitCall("seal_commit_phase1",
                  [result |-> SealCommitPhase1Outcome(commitFeature, commitCache),
                   cache |-> commitCache],
                  "committed")

\* if config.feature_enabled(SyntheticPoRep) { clear_synthetic_proofs(..)?; }
ClearSyntheticProofs ==
    /\ commitPc = "committed"
    /\ commitFeature
    /\ CommitCall("clear_synthetic_proofs",
                  [result |-> Ok, cache |-> ClearSyntheticProofsDir(commitCache)],
                  "done")

\* The cache dir as the pre-commit phases left it, or with artifacts missing.
InitCommit ==
    /\ IdleUnseal
    /\ IdleStore
    /\ IdleSeal
    /\ IdlePost
    /\ IdleAggregate
    /\ IdleUpdate
    /\ IdleValidate
    /\ IdleData
    /\ IdlePiece
    /\ IdlePartition
    /\ IdleWinning
    /\ IdleChallenges
    /\ IdleOutput
    /\ IdleThreads
    /\ commitFeature \in BOOLEAN
    /\ commitCache \in SUBSET (TempArtifacts \cup KeptArtifacts)
    /\ commitPc = "start"
    /\ commitTrace = <<>>

NextCommit ==
    \/ GenerateSynthProofs
    \/ ValidateCacheBeforeCommit
    \/ ClearCache
    \/ SealCommitPhase1
    \/ ClearSyntheticProofs

SpecCommit == InitCommit /\ [][NextCommit]_vars

CommitCallsMade == [i \in DOMAIN commitTrace |-> commitTrace[i].fn]

\* C21: with SyntheticPoRep, seal_commit_phase1 is called after
\* generate_synth_proofs and clear_cache, finds none of the label / tree
\* artifacts and still succeeds, and once clear_synthetic_proofs has run
\* neither those nor the synthetic proofs are left; without the feature it
\* is called right after a passing validate_cache_for_commit on the
\* uncleared cache, succeeds, and clear_cache runs only after it.
C21_SyntheticAllowsEarlyClear ==
    /\ \A i \in DOMAIN commitTrace :
           commitTrace[i].fn = "seal_commit_phase1" =>
               /\ commitTrace[i].result = Ok
               /\ IF commitFeature
                  THEN /\ SubSeq(CommitCallsMade, 1, i)
                            = <<"generate_synth_proofs", "clear_cache", "seal_commit_phase1">>
                       /\ commitTrace[1].result = Ok
                       /\ commitTrace[i].cache \cap TempArtifacts = {}
                  ELSE /\ SubSeq(CommitCallsMade, 1, i)
                            = <<"validate_cache_for_commit", "seal_commit_phase1">>
                       /\ commitTrace[1].result = Ok
                       /\ TempArtifacts \subseteq commitTrace[i].cache
    /\ commitPc = "done" =>
           /\ commitCache \cap (TempArtifacts \cup SynthArtifacts) = {}
           /\ CommitCallsMade[Len(commitTrace)]
                  = (IF commitFeature THEN "clear_synthetic_proofs" ELSE "clear_cache")

C21_Witness ==
    /\ commitFeature
    /\ commitPc = "done"
    /\ Len(commitTrace) = 4
    /\ commitTrace[3].fn = "seal_commit_phase1"
    /\ commitTrace[3].cache \cap TempArtifacts = {}
    /\ commitTrace[3].result = Ok

\* The driver without the feature also runs to the end.
PlainCommitCompletes ==
    /\ ~commitFeature
    /\ commitPc = "done"
    /\ CommitCallsMade = <<"validate_cache_for_commit", "seal_commit_phase1", "clear_cache">>

(***************************************************************************)
(* PoRep challenge parameters (filecoin-proofs/src/constants.rs)           *)
(*                                                                         *)
(* Sector sizes are counted in KiB (the source counts bytes, 1 << 11 to    *)
(* 1 << 36), so that the largest one is a number TLC can hold.             *)
(***************************************************************************)
SECTOR_SIZE_2_KIB == 2
SECTOR_SIZE_4_KIB == 4
SECTOR_SIZE_16_KIB == 16
SECTOR_SIZE_32_KIB == 32
SECTOR_SIZE_8_MIB == 8192
SECTOR_SIZE_16_MIB == 16384
SECTOR_SIZE_512_MIB == 524288
SECTOR_SIZE_1_GIB == 1048576
SECTOR_SIZE_32_GIB == 33554432
SECTOR_SIZE_64_GIB == 67108864

SUPPORTED_SECTOR_SIZES ==
    {SECTOR_SIZE_2_KIB, SECTOR_SIZE_4_KIB, SECTOR_SIZE_16_KIB, SECTOR_SIZE_32_KIB,
     SECTOR_SIZE_8_MIB, SECTOR_SIZE_16_MIB, SECTOR_SIZE_512_MIB, SECTOR_SIZE_1_GIB,
     SECTOR_SIZE_32_GIB, SECTOR_SIZE_64_GIB}

MAX_CHALLENGES_PER_PARTITION == 18

\* POREP_PARTITIONS: sector size |-> partitions of the interactive PoRep
POREP_PARTITIONS ==
    [sector_size \in SUPPORTED_SECTOR_SIZES |->
        IF sector_size \in {SECTOR_SIZE_1_GIB, SECTOR_SIZE_32_GIB, SECTOR_SIZE_64_GIB}
        THEN 10 ELSE 1]

\* get_porep_interactive_minimum_challenges; any other size panics
GetPorepInteractiveMinimumChallenges(sector_size) ==
    CASE sector_size \in {SECTOR_SIZE_2_KIB, SECTOR_SIZE_4_KIB, SECTOR_SIZE_16_KIB,
                          SECTOR_SIZE_32_KIB, SECTOR_SIZE_8_MIB, SECTOR_SIZE_16_MIB,
                          SECTOR_SIZE_512_MIB} -> 2
      [] sector_size \in {SECTOR_SIZE_1_GIB, SECTOR_SIZE_32_GIB, SECTOR_SIZE_64_GIB} -> 176

\* get_porep_non_interactive_minimum_challenges; any other size panics
GetPorepNonInteractiveMinimumChallenges(sector_size) ==
    CASE sector_size \in {SECTOR_SIZE_2_KIB, SECTOR_SIZE_4_KIB, SECTOR_SIZE_16_KIB,
                          SECTOR_SIZE_32_KIB, SECTOR_SIZE_8_MIB, SECTOR_SIZE_16_MIB,
                          SECTOR_SIZE_512_MIB, SECTOR_SIZE_1_GIB} -> 26
      [] sector_size \in {SECTOR_SIZE_32_GIB, SECTOR_SIZE_64_GIB} -> 2253

\* get_porep_non_interactive_partitions; any other size panics
GetPorepNonInteractivePartitions(sector_size) ==
    CASE sector_size \in {SECTOR_SIZE_2_KIB, SECTOR_SIZE_4_KIB, SECTOR_SIZE_16_KIB,
                          SECTOR_SIZE_32_KIB, SECTOR_SIZE_8_MIB, SECTOR_SIZE_16_MIB,
                          SECTOR_SIZE_512_MIB, SECTOR_SIZE_1_GIB} -> 13
      [] sector_size \in {SECTOR_SIZE_32_GIB, SECTOR_SIZE_64_GIB} -> 126

\* the value of one getter is recorded under its name
GetParam(name, value) ==
    /\ name \notin DOMAIN porepParams
    /\ porepParams' = [n \in DOMAIN porepParams \cup {name} |->
                          IF n = name THEN value ELSE porepParams[n]]
    /\ UNCHANGED porepSectorSize
    /\ UNCHANGED notChallengesVars

InteractiveMinimumChallengesCall ==
    GetParam("interactive_minimum_challenges",
             GetPorepInteractiveMinimumChallenges(porepSectorSize))

NonInteractiveMinimumChallengesCall ==
    GetParam("non_interactive_minimum_challenges",
             GetPorepNonInteractiveMinimumChallenges(porepSectorSize))

NonInteractivePartitionsCall ==
    GetParam("non_interactive_partitions",
             GetPorepNonInteractivePartitions(porepSectorSize))

PorepPartitionsRead ==
    GetParam("porep_partitions", POREP_PARTITIONS[porepSectorSize])

InitChallenges ==
    /\ IdleUnseal
    /\ IdleStore
    /\ IdleSeal
    /\ IdlePost
    /\ IdleAggregate
    /\ IdleUpdate
    /\ IdleValidate
    /\ IdleData
    /\ IdlePiece
    /\ IdlePartition
    /\ IdleWinning
    /\ IdleCommit
    /\ IdleOutput
    /\ IdleThreads
    /\ porepSectorSize \in SUPPORTED_SECTOR_SIZES
    /\ porepParams = <<>>

NextChallenges ==
    \/ InteractiveMinimumChallengesCall
    \/ NonInteractiveMinimumChallengesCall
    \/ NonInteractivePartitionsCall
    \/ PorepPartitionsRead

SpecChallenges == InitChallenges /\ [][NextChallenges]_vars

\* ceil(a / b)
CeilDiv(a, b) == (a + b - 1) \div b

MinimumChallengesKnown ==
    {"interactive_minimum_challenges", "non_interactive_minimum_challenges"}
        \subseteq DOMAIN porepParams

\* ceil(12.8 * interactive) = ceil(128 * interactive / 10)
NonInteractiveFromInteractive(interactive) == CeilDiv(128 * interactive, 10)

\* C22: for every supported sector size the non-interactive minimum number
\* of challenges is ceil(12.8 * the interactive minimum number of challenges).
C22_NonInteractiveIsScaledInteractive ==
    MinimumChallengesKnown =>
        porepParams["non_interactive_minimum_challenges"]
            = NonInteractiveFromInteractive(porepParams["interactive_minimum_challenges"])

\* The relation holds for every supported size but 1 GiB.
NonInteractiveIsScaledExceptOneGib ==
    (MinimumChallengesKnown /\ porepSectorSize # SECTOR_SIZE_1_GIB) =>
        porepParams["non_interactive_minimum_challenges"]
            = NonInteractiveFromInteractive(porepParams["interactive_minimum_challenges"])

\* 1 GiB: 176 interactive challenges, 26 non-interactive ones
OneGibNotScaled ==
    /\ porepSectorSize = SECTOR_SIZE_1_GIB
    /\ MinimumChallengesKnown
    /\ porepParams["interactive_minimum_challenges"] = 176
    /\ porepParams["non_interactive_minimum_challenges"] = 26

AllParamsKnown ==
    DOMAIN porepParams = {"interactive_minimum_challenges",
                          "non_interactive_minimum_challenges",
                          "non_interactive_partitions", "porep_partitions"}

NonInteractiveChallengesPerPartition ==
    CeilDiv(porepParams["non_interactive_minimum_challenges"],
            porepParams["non_interactive_partitions"])

InteractiveChallengesPerPartition ==
    CeilDiv(porepParams["interactive_minimum_challenges"], porepParams["porep_partitions"])

\* C23: for every supported sector size the non-interactive PoRep has as
\* many challenges per partition as the interactive PoRep, and never more
\* than MAX_CHALLENGES_PER_PARTITION.
C23_SameChallengesPerPartition ==
    AllParamsKnown =>
        /\ NonInteractiveChallengesPerPartition = InteractiveChallengesPerPartition
        /\ NonInteractiveChallengesPerPartition <= MAX_CHALLENGES_PER_PARTITION

\* Neither PoRep exceeds the maximum, and the two agree for every supported
\* size but 1 GiB.
ChallengesPerPartitionBounded ==
    AllParamsKnown =>
        /\ NonInteractiveChallengesPerPartition <= MAX_CHALLENGES_PER_PARTITION
        /\ InteractiveChallengesPerPartition <= MAX_CHALLENGES_PER_PARTITION
        /\ porepSectorSize # SECTOR_SIZE_1_GIB =>
               NonInteractiveChallengesPerPartition = InteractiveChallengesPerPartition

\* 1 GiB: 2 challenges per partition non-interactive, 18 interactive
OneGibPartitionsDiffer ==
    /\ porepSectorSize = SECTOR_SIZE_1_GIB
    /\ AllParamsKnown
    /\ NonInteractiveChallengesPerPartition = 2
    /\ InteractiveChallengesPerPartition = 18

(***************************************************************************)
(* get_unsealed_range and the file it writes at output_path.               *)
(***************************************************************************)
\* File::create(&output_path): a new empty file, or the one there truncated
FileCreate(file) == [exists |-> TRUE, bytes |-> <<>>]

\* A sealed sector holding one piece of the minimum size.
SealedSectorOf(seed, ticket) ==
    LET staged_bytes == Fr32Pad(SourceBytes(seed, MINIMUM_PIECE_SIZE))
        comm_d == ComputeCommD(staged_bytes)
    IN [sealed |-> EncodeSector(staged_bytes,
                                GenerateReplicaId(ProverId, SectorIdOfSector, ticket,
                                                  comm_d, PorepId)),
        comm_d |-> comm_d, ticket |-> ticket]

\* get_unsealed_range: File::create(&output_path)?, then unseal_range_mapped
\* writing through a BufWriter over the file.  `can_create` and `can_open`
\* say whether output_path can be created and sealed_path opened.
GetUnsealedRange(comm_d, offset, num_bytes, can_create, can_open) ==
    /\ outputCall = NoCall
    /\ outputCall' = [fn |-> "get_unsealed_range", comm_d |-> comm_d, offset |-> offset,
                      num_bytes |-> num_bytes, can_create |-> can_create,
                      can_open |-> can_open, before |-> outputFile]
    /\ IF ~can_create
       THEN /\ outputResult' = [kind |-> "err", error |-> "could not create output_path"]
            /\ UNCHANGED <<outputFile, outputSector>>
       ELSE LET f_out == FileCreate(outputFile)
            IN IF ~CommDAccepted(comm_d)
               THEN /\ outputResult' = [kind |-> "err",
                                        error |-> "Invalid all zero commitment (comm_d)"]
                    /\ outputFile' = f_out
                    /\ UNCHANGED outputSector
               ELSE IF ~can_open
               THEN /\ outputResult' = [kind |-> "err", error |-> "open"]
                    /\ outputFile' = f_out
                    /\ UNCHANGED outputSector
               ELSE LET replica_id == GenerateReplicaId(ProverId, SectorIdOfSector,
                                                        outputSector.ticket, comm_d, PorepId)
                        out == UnsealRangeInner(outputSector.sealed, replica_id,
                                                offset, num_bytes)
                    IN /\ outputResult' = out.result
                       /\ outputFile' = [f_out EXCEPT !.bytes = out.written]
                       /\ outputSector' =
                              [outputSector EXCEPT !.sealed =
                                  MapCopy(@, DecodeSector(@, replica_id))]
    /\ UNCHANGED notOutputVars

\* The caller takes the result; the file stays at output_path.
ReturnOutput ==
    /\ outputCall # NoCall
    /\ outputCall' = NoCall
    /\ outputResult' = NoResult
    /\ UNCHANGED <<outputSector, outputFile>>
    /\ UNCHANGED notOutputVars

InitOutput ==
    /\ IdleUnseal
    /\ IdleStore
    /\ IdleSeal
    /\ IdlePost
    /\ IdleAggregate
    /\ IdleUpdate
    /\ IdleValidate
    /\ IdleData
    /\ IdlePiece
    /\ IdlePartition
    /\ IdleWinning
    /\ IdleCommit
    /\ IdleChallenges
    /\ IdleThreads
    /\ outputSector \in {SealedSectorOf(seed, ticket) : seed \in Seeds, ticket \in Tickets}
    /\ outputFile = NoDiskFile
    /\ outputCall = NoCall
    /\ outputResult = NoResult

\* Ranges inside the piece, and one that ends beyond the sector.
GetUnsealedRangeCall ==
    \E comm_d \in {ZeroCommitment, outputSector.comm_d}, offset \in {0, 32},
       num_bytes \in {1, MINIMUM_PIECE_SIZE, 2 * MINIMUM_PIECE_SIZE},
       can_create \in BOOLEAN, can_open \in BOOLEAN :
        GetUnsealedRange(comm_d, offset, num_bytes, can_create, can_open)

NextOutput ==
    \/ GetUnsealedRangeCall
    \/ ReturnOutput

SpecOutput == InitOutput /\ [][NextOutput]_vars

\* The call failed before a byte was unsealed, with a file at output_path.
FailedBeforeUnsealing ==
    /\ outputCall # NoCall
    /\ outputCall.before.exists
    /\ outputCall.can_create
    /\ \/ outputCall.comm_d = ZeroCommitment
       \/ ~outputCall.can_open

\* C29 as stated: when get_unsealed_range fails on the all-zero comm_d or on
\* a sealed_path that cannot be opened, a file that exists at output_path
\* keeps the content it had before the call.
C29_FailedCallKeepsOutput ==
    FailedBeforeUnsealing =>
        /\ outputResult.kind = "err"
        /\ outputFile = outputCall.before

\* What the code does: the file is truncated before either check is made.
FailedCallTruncatesOutput ==
    FailedBeforeUnsealing =>
        /\ outputResult.kind = "err"
        /\ outputFile = [exists |-> TRUE, bytes |-> <<>>]

\* The output of an earlier call lost to a call with the all-zero comm_d.
PreviousOutputTruncated ==
    /\ FailedBeforeUnsealing
    /\ outputCall.comm_d = ZeroCommitment
    /\ Len(outputCall.before.bytes) = MINIMUM_PIECE_SIZE
    /\ outputFile.bytes = <<>>

\* Only a call that cannot create the file leaves it as it was.
UncreatedOutputKept ==
    (outputCall # NoCall /\ ~outputCall.can_create) =>
        /\ outputResult.kind = "err"
        /\ outputFile = outputCall.before

(***************************************************************************)
(* gpu-cpu-test, threads mode: the main thread spawns `parallel` workers,  *)
(* sleeps for TIMEOUT, sends each worker a termination message and joins   *)
(* them.  A proof is one step of a worker.                                 *)
(***************************************************************************)
\* Most worker threads (the `parallel` argument).
MaxWorkers == 2
\* Iterations after which thread_fun leaves its loop by itself: stands for
\* u8::MAX of `while iteration < u8::MAX`.
IterationLimit == 3

\* spawn_thread: mpsc::channel() and a thread running thread_fun from
\* iteration 0; the first worker ("high") runs the priority proof when
\* gpu_stealing is set
SpawnedWorker(priority) ==
    [pc |-> "proving", iteration |-> 0, priority |-> priority, after_kill |-> 0]
NewChannel == [messages |-> 0, sender |-> TRUE, receiver |-> TRUE]

\* generate_post / generate_post_in_priority: the proof of this iteration
RunProof(w) ==
    /\ mainPc \in {"sleeping", "sending", "joining"}
    /\ workers[w].pc = "proving"
    /\ workers' = [workers EXCEPT ![w].pc = "checking",
                                  ![w].after_kill =
                                      IF channels[w].messages > 0 THEN @ + 1 ELSE @]
    /\ UNCHANGED <<channels, mainPc, mainNext, runInfos>>
    /\ UNCHANGED notThreadsVars

\* match rx.try_recv(): a message or a disconnected channel breaks the loop,
\* an empty channel goes on to iteration += 1 and the loop condition; on
\* leaving the loop thread_fun returns its RunInfo and drops rx
TryRecv(w) ==
    /\ mainPc \in {"sleeping", "sending", "joining"}
    /\ workers[w].pc = "checking"
    /\ IF channels[w].messages > 0
       THEN /\ workers' = [workers EXCEPT ![w].pc = "finished"]
            /\ channels' = [channels EXCEPT ![w].messages = @ - 1, ![w].receiver = FALSE]
       ELSE IF ~channels[w].sender
       THEN /\ workers' = [workers EXCEPT ![w].pc = "finished"]
            /\ channels' = [channels EXCEPT ![w].receiver = FALSE]
       ELSE IF workers[w].iteration + 1 < IterationLimit
       THEN /\ workers' = [workers EXCEPT ![w].iteration = @ + 1, ![w].pc = "proving"]
            /\ UNCHANGED channels
       ELSE /\ workers' = [workers EXCEPT ![w].iteration = @ + 1, ![w].pc = "finished"]
            /\ channels' = [channels EXCEPT ![w].receiver = FALSE]
    /\ UNCHANGED <<mainPc, mainNext, runInfos>>
    /\ UNCHANGED notThreadsVars

\* thread::sleep(timeout) returns
Timeout ==
    /\ mainPc = "sleeping"
    /\ mainPc' = "sending"
    /\ mainNext' = 1
    /\ UNCHANGED <<workers, channels, runInfos>>
    /\ UNCHANGED notThreadsVars

\* Sender::send: fails when the Receiver of the channel was dropped
SendOk(channel) == channel.receiver

\* for tx in senders { tx.send(()).expect("tx channel send failed"); }
SendTermination ==
    /\ mainPc = "sending"
    /\ IF SendOk(channels[mainNext])
       THEN /\ channels' = [channels EXCEPT ![mainNext].messages = @ + 1,
                                            ![mainNext].sender = FALSE]
            /\ IF mainNext = Len(workers)
               THEN /\ mainPc' = "joining"
                    /\ mainNext' = 1
               ELSE /\ mainNext' = mainNext + 1
                    /\ UNCHANGED mainPc
       ELSE /\ mainPc' = "panicked"
            /\ UNCHANGED <<channels, mainNext>>
    /\ UNCHANGED <<workers, runInfos>>
    /\ UNCHANGED notThreadsVars

\* handler.join().expect(..): waits for the thread to return, then prints
\* its RunInfo
JoinWorker ==
    /\ mainPc = "joining"
    /\ workers[mainNext].pc = "finished"
    /\ runInfos' = Append(runInfos, [thread |-> mainNext,
                                     iterations |-> workers[mainNext].iteration])
    /\ IF mainNext = Len(workers)
       THEN /\ mainPc' = "done"
            /\ UNCHANGED mainNext
       ELSE /\ mainNext' = mainNext + 1
            /\ UNCHANGED mainPc
    /\ UNCHANGED <<workers, channels>>
    /\ UNCHANGED notThreadsVars

\* threads_mode(parallel, gpu_stealing) with every worker spawned and the
\* main thread asleep.
InitThreads ==
    /\ IdleUnseal
    /\ IdleStore
    /\ IdleSeal
    /\ IdlePost
    /\ IdleAggregate
    /\ IdleUpdate
    /\ IdleValidate
    /\ IdleData
    /\ IdlePiece
    /\ IdlePartition
    /\ IdleWinning
    /\ IdleCommit
    /\ IdleChallenges
    /\ IdleOutput
    /\ \E parallel \in 1..MaxWorkers, gpu_stealing \in BOOLEAN :
           /\ workers = [w \in 1..parallel |-> SpawnedWorker(w = 1 /\ gpu_stealing)]
           /\ channels = [w \in 1..parallel |-> NewChannel]
    /\ mainPc = "sleeping"
    /\ mainNext = 0
    /\ runInfos = <<>>

RunProofStep == \E w \in DOMAIN workers : RunProof(w)
TryRecvStep == \E w \in DOMAIN workers : TryRecv(w)

NextThreads ==
    \/ RunProofStep
    \/ TryRecvStep
    \/ Timeout
    \/ SendTermination
    \/ JoinWorker

SpecThreads == InitThreads /\ [][NextThreads]_vars

\* No worker runs more than the proof in progress once its message is sent.
StopsAfterCurrentProof == \A w \in DOMAIN workers : workers[w].after_kill <= 1

\* C30 as stated: however the workers' progress interleaves with the
\* timeout, also when a worker finishes all its iterations before it, the
\* main thread sends every termination message without failing, no worker
\* runs more than the proof in progress after its message, and the main
\* thread returns with one RunInfo per worker.
C30_ThreadsTerminated ==
    /\ mainPc # "panicked"
    /\ StopsAfterCurrentProof
    /\ mainPc = "done" => Len(runInfos) = Len(workers)

\* The send only fails for a worker that ran all its iterations before its
\* message was sent; the rest of the claim holds in every interleaving.
SendFailsOnlyForFinishedWorker ==
    /\ mainPc = "panicked" =>
           /\ workers[mainNext].pc = "finished"
           /\ workers[mainNext].iteration = IterationLimit
           /\ ~channels[mainNext].receiver
    /\ StopsAfterCurrentProof
    /\ mainPc = "done" =>
           /\ Len(runInfos) = Len(workers)
           /\ \A w \in DOMAIN workers : runInfos[w].thread = w

\* A worker that ended by itself before the timeout, and the panic of send.
SendToFinishedWorker ==
    /\ mainPc = "panicked"
    /\ Len(workers) = MaxWorkers
    /\ mainNext = MaxWorkers
    /\ workers[mainNext].iteration = IterationLimit

\* Both workers stopped by their messages and joined.
AllWorkersJoined ==
    /\ mainPc = "done"
    /\ Len(workers) = MaxWorkers
    /\ Len(runInfos) = MaxWorkers
    /\ \A w \in DOMAIN workers : workers[w].iteration < IterationLimit

====
